---- MODULE Spec2Model ----
(***************************************************************************)
(* Model of the version and release state engine of forge: the version     *)
(* parsers and calculators (internal/version/scheme.go), the git tagger    *)
(* (package git) and the bump / hotfix bump commands (internal/commands).  *)
(*                                                                         *)
(* Go strings are modelled as sequences of one-character strings, so that  *)
(* formatting and parsing are computed character by character as the code  *)
(* computes them: "v1.0" is <<"v", "1", ".", "0">> and "" is <<>>.        *)
(***************************************************************************)
EXTENDS Integers, Sequences, FiniteSets, TLC

VARIABLES
    tags,           \* tag name -> commit it points at (refs/tags)
    branches,       \* branch name -> commit it points at (refs/heads)
    currentBranch,  \* the checked-out branch
    dirty,          \* the working tree has uncommitted changes
    clock,            \* the UTC day, [year, yday]
    cfg,            \* the loaded forge.yaml
    runs,           \* run id -> the command invocation in progress
    log,            \* history: the tags created by the commands, in order
    call            \* the pure-function call under examination

vars == <<tags, branches, currentBranch, dirty, clock, cfg, runs, log, call>>

\* two invocations of forge can be in progress on the same repository
RunIds == {1, 2}

----------------------------------------------------------------------------
(* Go string primitives (strings, strconv, fmt)                             *)

DigitChars == <<"0", "1", "2", "3", "4", "5", "6", "7", "8", "9">>

IsDigit(c) == \E i \in 1..10 : DigitChars[i] = c

DigitVal(c) == (CHOOSE i \in 1..10 : DigitChars[i] = c) - 1

AllDigits(s) == \A i \in 1..Len(s) : IsDigit(s[i])

RECURSIVE DigitsVal(_)
DigitsVal(s) ==
    IF s = <<>> THEN 0
    ELSE 10 * DigitsVal(SubSeq(s, 1, Len(s) - 1)) + DigitVal(s[Len(s)])

\* strconv.Atoi: optional sign, then one or more decimal digits, nothing else.
Atoi(s) ==
    LET signed == Len(s) > 0 /\ s[1] \in {"+", "-"}
        body   == IF signed THEN Tail(s) ELSE s
    IN  IF body = <<>> \/ ~AllDigits(body)
        THEN [err |-> TRUE, n |-> 0]
        ELSE [err |-> FALSE,
              n   |-> IF signed /\ s[1] = "-" THEN 0 - DigitsVal(body)
                      ELSE DigitsVal(body)]

RECURSIVE NatStr(_)
NatStr(n) ==
    IF n < 10 THEN <<DigitChars[n + 1]>>
    ELSE NatStr(n \div 10) \o <<DigitChars[(n % 10) + 1]>>

\* fmt verb %d
Itoa(n) == IF n < 0 THEN <<"-">> \o NatStr(0 - n) ELSE NatStr(n)

\* fmt verb %02d
Pad2(n) == IF n >= 0 /\ n < 10 THEN <<"0">> \o NatStr(n) ELSE Itoa(n)

\* strings.IndexByte, 1-based; 0 when the character does not occur
IndexByte(s, c) ==
    IF \E i \in 1..Len(s) : s[i] = c
    THEN CHOOSE i \in 1..Len(s) : s[i] = c /\ \A j \in 1..(i - 1) : s[j] # c
    ELSE 0

\* strings.SplitN(s, c, 2)
SplitN2(s, c) ==
    LET i == IndexByte(s, c)
    IN  IF i = 0 THEN <<s>>
        ELSE <<SubSeq(s, 1, i - 1), SubSeq(s, i + 1, Len(s))>>

\* strings.Split(s, c)
RECURSIVE Split(_, _)
Split(s, c) ==
    LET i == IndexByte(s, c)
    IN  IF i = 0 THEN <<s>>
        ELSE <<SubSeq(s, 1, i - 1)>> \o Split(SubSeq(s, i + 1, Len(s)), c)

\* strings.Join(parts, c)
RECURSIVE Join(_, _)
Join(parts, c) ==
    IF parts = <<>> THEN <<>>
    ELSE IF Len(parts) = 1 THEN parts[1]
    ELSE parts[1] \o <<c>> \o Join(Tail(parts), c)

\* strings.HasPrefix
HasPrefix(s, p) == Len(p) <= Len(s) /\ SubSeq(s, 1, Len(p)) = p

\* strings.TrimPrefix
TrimPrefix(s, p) == IF HasPrefix(s, p) THEN SubSeq(s, Len(p) + 1, Len(s)) ELSE s

\* strings.HasSuffix
HasSuffix(s, p) == Len(p) <= Len(s) /\ SubSeq(s, Len(s) - Len(p) + 1, Len(s)) = p

\* strings.LastIndex for a one-character separator, 1-based; 0 when absent
LastIndexByte(s, c) ==
    IF \E i \in 1..Len(s) : s[i] = c
    THEN CHOOSE i \in 1..Len(s) : s[i] = c /\ \A j \in (i + 1)..Len(s) : s[j] # c
    ELSE 0

\* strings.Contains
Contains(s, sub) ==
    \E i \in 1..(Len(s) - Len(sub) + 1) : SubSeq(s, i, i + Len(sub) - 1) = sub

\* strings.ReplaceAll for a non-empty old string
RECURSIVE ReplaceAll(_, _, _)
ReplaceAll(s, old, new) ==
    IF Len(s) < Len(old) THEN s
    ELSE IF HasPrefix(s, old)
         THEN new \o ReplaceAll(SubSeq(s, Len(old) + 1, Len(s)), old, new)
         ELSE <<s[1]>> \o ReplaceAll(Tail(s), old, new)

----------------------------------------------------------------------------
(* package version: the Version struct and the two parsers                 *)

SchemeSemVer == "semver"
SchemeCalVer == "calver"

BumpMajor == "major"
BumpMinor == "minor"
BumpPatch == "patch"

\* a zero Version struct of the given scheme
ZeroVersion(scheme) ==
    [Scheme |-> scheme, Raw |-> <<>>,
     Major |-> 0, Minor |-> 0, Patch |-> 0, Pre |-> <<>>, Meta |-> <<>>,
     CalVerDate |-> <<>>, CalVerSequence |-> 0]

\* (nil, err)
ParseError == [err |-> TRUE, v |-> ZeroVersion("none")]

\* the "+metadata" and then the "-prerelease" split both parsers start with
StripOverlays(s) ==
    LET m    == SplitN2(s, "+")
        s1   == IF Len(m) = 2 THEN m[1] ELSE s
        p    == SplitN2(s1, "-")
        core == IF Len(p) = 2 THEN p[1] ELSE s1
    IN  [Meta |-> IF Len(m) = 2 THEN m[2] ELSE <<>>,
         Pre  |-> IF Len(p) = 2 THEN p[2] ELSE <<>>,
         core |-> core]

ParseSemVer(s) ==
    LET o     == StripOverlays(s)
        parts == Split(o.core, ".")
        ma    == Atoi(parts[1])
        mi    == Atoi(parts[2])
        pa    == Atoi(parts[3])
    IN  IF Len(parts) # 3 THEN ParseError
        ELSE IF ma.err \/ mi.err \/ pa.err THEN ParseError
        ELSE [err |-> FALSE,
              v   |-> [ZeroVersion(SchemeSemVer) EXCEPT
                         !.Raw = s, !.Meta = o.Meta, !.Pre = o.Pre,
                         !.Major = ma.n, !.Minor = mi.n, !.Patch = pa.n]]

\* ParseCalVer, the case of three parts read as a week and a sequence only
\* when the second part is 12 or more: the month 12 taken for a week
ThreePartsFromTwelve(base, dateParts) ==
    LET secondPart == Atoi(dateParts[2])
        thirdPart  == Atoi(dateParts[3])
    IN  IF ~secondPart.err /\ ~thirdPart.err
           /\ secondPart.n <= 53 /\ thirdPart.n <= 31 /\ secondPart.n >= 12
        THEN [err |-> FALSE,
              v   |-> [base EXCEPT
                         !.CalVerDate = Join(SubSeq(dateParts, 1, 2), "."),
                         !.CalVerSequence = thirdPart.n]]
        ELSE [err |-> FALSE,
              v   |-> [base EXCEPT !.CalVerDate = Join(SubSeq(dateParts, 1, 3), ".")]]

\* ParseCalVer, the case of three parts: YYYY.WW.SEQ or YYYY.MM.DD
ParseThreeParts(base, dateParts) ==
    LET secondPart == Atoi(dateParts[2])
        thirdPart  == Atoi(dateParts[3])
    IN  IF ~secondPart.err /\ ~thirdPart.err
           /\ secondPart.n <= 53 /\ thirdPart.n <= 31
        THEN IF secondPart.n > 12
             THEN [err |-> FALSE,
                   v   |-> [base EXCEPT
                              !.CalVerDate = Join(SubSeq(dateParts, 1, 2), "."),
                              !.CalVerSequence = thirdPart.n]]
             ELSE [err |-> FALSE,
                   v   |-> [base EXCEPT
                              !.CalVerDate = Join(SubSeq(dateParts, 1, 3), ".")]]
        ELSE [err |-> FALSE,
              v   |-> [base EXCEPT !.CalVerDate = Join(SubSeq(dateParts, 1, 3), ".")]]

\* ParseCalVer, once the overlays are split off and the core is split at "."
ParseCalVerParts(base, dateParts) ==
    IF Len(dateParts) < 2 THEN ParseError
    ELSE IF Len(dateParts) = 2 THEN
        LET weekNum == Atoi(dateParts[2])
        IN  IF weekNum.err \/ weekNum.n <= 12 THEN ParseError
            ELSE [err |-> FALSE,
                  v   |-> [base EXCEPT !.CalVerDate = Join(dateParts, ".")]]
    ELSE IF Len(dateParts) = 3 THEN ParseThreeParts(base, dateParts)
    ELSE IF Len(dateParts) = 4 THEN
        LET seq == Atoi(dateParts[4])
        IN  IF seq.err THEN ParseError
            ELSE [err |-> FALSE,
                  v   |-> [base EXCEPT
                             !.CalVerDate = Join(SubSeq(dateParts, 1, 3), "."),
                             !.CalVerSequence = seq.n]]
    ELSE ParseError

ParseCalVerFrom(s, o) ==
    ParseCalVerParts([ZeroVersion(SchemeCalVer) EXCEPT
                        !.Raw = s, !.Meta = o.Meta, !.Pre = o.Pre],
                     Split(o.core, "."))

ParseCalVer(s) == ParseCalVerFrom(s, StripOverlays(s))

\* Version.String
String(v) ==
    LET core == IF v.Scheme = SchemeSemVer
                THEN Itoa(v.Major) \o <<".">> \o Itoa(v.Minor) \o <<".">> \o Itoa(v.Patch)
                ELSE IF v.Scheme = SchemeCalVer
                THEN IF v.CalVerSequence > 0
                     THEN v.CalVerDate \o <<".">> \o Itoa(v.CalVerSequence)
                     ELSE v.CalVerDate
                ELSE <<>>
        withPre == IF v.Pre # <<>> THEN core \o <<"-">> \o v.Pre ELSE core
    IN  IF v.Meta # <<>> THEN withPre \o <<"+">> \o v.Meta ELSE withPre

----------------------------------------------------------------------------
(* time.Time, reduced to the UTC calendar day: [year, yday], yday from 1   *)

IsLeap(y) == (y % 4 = 0 /\ y % 100 # 0) \/ y % 400 = 0

DaysInYear(y) == IF IsLeap(y) THEN 366 ELSE 365

\* normalises a day offset of at most one year in either direction
AddDays(t, d) ==
    LET n == t.yday + d
    IN  IF n < 1 THEN [year |-> t.year - 1, yday |-> n + DaysInYear(t.year - 1)]
        ELSE IF n > DaysInYear(t.year)
             THEN [year |-> t.year + 1, yday |-> n - DaysInYear(t.year)]
             ELSE [year |-> t.year, yday |-> n]

\* Time.Weekday, Monday = 1 .. Sunday = 7
Weekday(t) ==
    LET y    == t.year - 1
        jan1 == (1 + 5 * (y % 4) + 4 * (y % 100) + 6 * (y % 400)) % 7
        w    == (jan1 + t.yday - 1) % 7
    IN  IF w = 0 THEN 7 ELSE w

\* length of the months before month m
DaysBefore(y, m) ==
    LET cum == <<0, 31, 59, 90, 120, 151, 181, 212, 243, 273, 304, 334, 365>>
    IN  IF m > 2 /\ IsLeap(y) THEN cum[m] + 1 ELSE cum[m]

\* Time.Month
Month(t) == CHOOSE m \in 1..12 :
                DaysBefore(t.year, m) < t.yday /\ t.yday <= DaysBefore(t.year, m + 1)

\* Time.Day
Day(t) == t.yday - DaysBefore(t.year, Month(t))

\* Time.ISOWeek: the year and the week of the Thursday of t's week
ISOWeek(t) ==
    LET thu == AddDays(t, 4 - Weekday(t))
    IN  [year |-> thu.year, week |-> ((thu.yday - 1) \div 7) + 1]

\* Time.Format for the layout elements 2006, 01, 02 and 06; any other
\* character of the layout is copied
RECURSIVE TimeFormat(_, _)
TimeFormat(t, layout) ==
    IF layout = <<>> THEN <<>>
    ELSE IF HasPrefix(layout, <<"2", "0", "0", "6">>)
         THEN Itoa(t.year) \o TimeFormat(t, SubSeq(layout, 5, Len(layout)))
    ELSE IF HasPrefix(layout, <<"0", "1">>)
         THEN Pad2(Month(t)) \o TimeFormat(t, SubSeq(layout, 3, Len(layout)))
    ELSE IF HasPrefix(layout, <<"0", "2">>)
         THEN Pad2(Day(t)) \o TimeFormat(t, SubSeq(layout, 3, Len(layout)))
    ELSE IF HasPrefix(layout, <<"0", "6">>)
         THEN Pad2(t.year % 100) \o TimeFormat(t, SubSeq(layout, 3, Len(layout)))
    ELSE <<layout[1]>> \o TimeFormat(t, Tail(layout))

----------------------------------------------------------------------------
(* package version: the calculators                                        *)

\* a nil *Version
NilVersion == ZeroVersion("nil")

\* BumpSemVer whose minor bump leaves the patch number as it is
BumpSemVerKeepsPatch(v, bump) ==
    LET next == [ZeroVersion(SchemeSemVer) EXCEPT
                   !.Major = v.Major, !.Minor = v.Minor, !.Patch = v.Patch]
    IN  IF bump = BumpMajor
        THEN [next EXCEPT !.Major = v.Major + 1, !.Minor = 0, !.Patch = 0]
        ELSE IF bump = BumpMinor
        THEN [next EXCEPT !.Minor = v.Minor + 1]
        ELSE IF bump = BumpPatch
        THEN [next EXCEPT !.Patch = v.Patch + 1]
        ELSE next

BumpSemVer(v, bump) ==
    LET next == [ZeroVersion(SchemeSemVer) EXCEPT
                   !.Major = v.Major, !.Minor = v.Minor, !.Patch = v.Patch]
    IN  IF bump = BumpMajor
        THEN [next EXCEPT !.Major = v.Major + 1, !.Minor = 0, !.Patch = 0]
        ELSE IF bump = BumpMinor
        THEN [next EXCEPT !.Minor = v.Minor + 1, !.Patch = 0]
        ELSE IF bump = BumpPatch
        THEN [next EXCEPT !.Patch = v.Patch + 1]
        ELSE next

FormatCalVer(t, format) ==
    IF Contains(format, <<"W", "W">>)
    THEN LET iso  == ISOWeek(t)
             r1   == ReplaceAll(format, <<"W", "W">>, Pad2(iso.week))
             r2   == ReplaceAll(r1, <<"2", "0", "0", "6">>, Itoa(iso.year))
         IN  ReplaceAll(r2, <<"Y", "Y", "Y", "Y">>, Itoa(iso.year))
    ELSE TimeFormat(t, format)

\* NextCalVer with the week formats starting at 0 like the date formats
NextCalVerWeekFromZero(current, format, now) ==
    LET nowStr == FormatCalVer(now, format)
        next   == [ZeroVersion(SchemeCalVer) EXCEPT !.CalVerDate = nowStr]
    IN  IF current # NilVersion /\ current.CalVerDate = nowStr
        THEN [next EXCEPT !.CalVerSequence = current.CalVerSequence + 1]
        ELSE next

NextCalVer(current, format, now) ==
    LET nowStr       == FormatCalVer(now, format)
        isWeekFormat == Contains(format, <<"W", "W">>)
        next         == [ZeroVersion(SchemeCalVer) EXCEPT !.CalVerDate = nowStr]
    IN  IF current # NilVersion /\ current.CalVerDate = nowStr
        THEN [next EXCEPT !.CalVerSequence = current.CalVerSequence + 1]
        ELSE IF isWeekFormat
        THEN [next EXCEPT !.CalVerSequence = 1]
        ELSE next

WithPrerelease(v, pre) == [v EXCEPT !.Pre = pre]

WithMetadata(v, meta) == [v EXCEPT !.Meta = meta]

StripPrefix(tag, prefix) == TrimPrefix(tag, prefix)

WithPrefix(version, prefix) == prefix \o version

\* IsHotfixVersion that takes the second of two or more dot-separated parts
IsHotfixVersionAnyDots(tag) ==
    LET parts    == Split(tag, "-")
        dotParts == Split(parts[Len(parts)], ".")
    IN  /\ Len(parts) >= 2
        /\ Len(dotParts) >= 2
        /\ ~Atoi(dotParts[2]).err

IsHotfixVersion(tag) ==
    LET parts    == Split(tag, "-")
        lastPart == parts[Len(parts)]
        dotParts == Split(lastPart, ".")
    IN  /\ Len(parts) >= 2
        /\ Len(dotParts) = 2
        /\ ~Atoi(dotParts[2]).err

\* (nil, "", 0, err)
HotfixParseError == [err |-> TRUE, base |-> ZeroVersion("none"), suffix |-> <<>>, seq |-> 0]

\* strings.Count(s, ".")
CountDots(s) == Cardinality({i \in 1..Len(s) : s[i] = "."})

\* ParseHotfixVersion: the base string read as SemVer first when it has two
\* dots, as CalVer first otherwise, and as the other scheme if that fails
ParseHotfixBase(baseStr) ==
    IF CountDots(baseStr) = 2
    THEN IF ~ParseSemVer(baseStr).err THEN ParseSemVer(baseStr) ELSE ParseCalVer(baseStr)
    ELSE IF ~ParseCalVer(baseStr).err THEN ParseCalVer(baseStr) ELSE ParseSemVer(baseStr)

ParseHotfixVersion(tag) ==
    LET lastHyphen == LastIndexByte(tag, "-")
        baseStr    == SubSeq(tag, 1, lastHyphen - 1)
        suffixPart == SubSeq(tag, lastHyphen + 1, Len(tag))
        dotIndex   == IndexByte(suffixPart, ".")
        seq        == Atoi(SubSeq(suffixPart, dotIndex + 1, Len(suffixPart)))
        base       == ParseHotfixBase(baseStr)
    IN  IF ~IsHotfixVersion(tag) THEN HotfixParseError
        ELSE IF lastHyphen = 0 \/ dotIndex = 0 THEN HotfixParseError
        ELSE IF seq.err THEN HotfixParseError
        ELSE IF base.err THEN HotfixParseError
        ELSE [err |-> FALSE, base |-> base.v,
              suffix |-> SubSeq(suffixPart, 1, dotIndex - 1), seq |-> seq.n]

\* IncrementHotfixSequence that rebuilds the tag from the parsed base version
IncrementFromParsedBase(tag) ==
    LET p == ParseHotfixVersion(tag)
    IN  IF p.err THEN [err |-> TRUE, tag |-> <<>>]
        ELSE [err |-> FALSE,
              tag |-> String(p.base) \o <<"-">> \o p.suffix \o <<".">> \o Itoa(p.seq + 1)]

IncrementHotfixSequence(tag) ==
    LET p       == ParseHotfixVersion(tag)
        baseTag == SubSeq(tag, 1, LastIndexByte(tag, "-") - 1)
    IN  IF p.err THEN [err |-> TRUE, tag |-> <<>>]
        ELSE [err |-> FALSE,
              tag |-> baseTag \o <<"-">> \o p.suffix \o <<".">> \o Itoa(p.seq + 1)]

----------------------------------------------------------------------------
(* git, as the Tagger uses it                                              *)

\* byte order of the characters that occur in tag and branch names
AsciiOrder ==
    <<"+", "-", ".", "/",
      "0", "1", "2", "3", "4", "5", "6", "7", "8", "9",
      "W", "Y",
      "a", "b", "c", "d", "e", "f", "g", "h", "i", "j", "k", "l", "m",
      "n", "o", "p", "q", "r", "s", "t", "u", "v", "w", "x", "y", "z">>

\* the terminating NUL of a C string
NUL == ""

CharAt(s, i) == IF i <= Len(s) THEN s[i] ELSE NUL

Rank(c) == IF c = NUL THEN 0 ELSE CHOOSE i \in 1..Len(AsciiOrder) : AsciiOrder[i] = c

\* (c == '0') + (isdigit(c) != 0)
CharClass(c) == IF c = "0" THEN 2 ELSE IF IsDigit(c) THEN 1 ELSE 0

VcNextState == <<0, 3, 9,   0, 3, 3,   0, 6, 6,   0, 6, 9>>

\* 2 is CMP, 3 is LEN
VcResultType ==
    <<2, 2, 2, 2, 3, 2, 2, 2, 2,
      2, -1, -1, 1, 3, 3, 1, 3, 3,
      2, 2, 2, 2, 2, 2, 2, 2, 2,
      2, 1, 1, -1, 2, 2, -1, 2, 2>>

RECURSIVE VcLen(_, _, _, _)
VcLen(s1, s2, j, diff) ==
    IF IsDigit(CharAt(s1, j))
    THEN IF ~IsDigit(CharAt(s2, j)) THEN 1 ELSE VcLen(s1, s2, j + 1, diff)
    ELSE IF IsDigit(CharAt(s2, j)) THEN -1 ELSE diff

RECURSIVE VcScan(_, _, _, _)
VcScan(s1, s2, i, state) ==
    LET c1 == CharAt(s1, i)
        c2 == CharAt(s2, i)
    IN  IF c1 = c2
        THEN IF c1 = NUL THEN 0
             ELSE VcScan(s1, s2, i + 1,
                         VcNextState[state + 1] + CharClass(CharAt(s1, i + 1)))
        ELSE LET diff == Rank(c1) - Rank(c2)
                 rt   == VcResultType[state * 3 + CharClass(c2) + 1]
             IN  IF rt = 2 THEN diff
                 ELSE IF rt = 3 THEN VcLen(s1, s2, i + 1, diff)
                 ELSE rt

\* the order of --sort=version:refname: negative, zero or positive
VersionCmp(s1, s2) == VcScan(s1, s2, 1, CharClass(CharAt(s1, 1)))

\* git tag -l <prefix>* over the set of tag names
TagsWithPrefix(names, prefix) == {t \in names : HasPrefix(t, prefix)}

\* Tagger.LatestTag: first line of the listing sorted by descending version,
\* or "" when nothing is listed
LatestTag(names, prefix) ==
    LET listed == TagsWithPrefix(names, prefix)
    IN  IF listed = {} THEN <<>>
        ELSE CHOOSE t \in listed : \A u \in listed : VersionCmp(t, u) >= 0

\* Tagger.ParseLatestVersion: (nil, nil) when there is no tag
ParseLatestVersion(names, prefix, scheme) ==
    LET tag        == LatestTag(names, prefix)
        versionStr == StripPrefix(tag, prefix)
    IN  IF tag = <<>> THEN [err |-> FALSE, v |-> NilVersion]
        ELSE IF scheme = SchemeSemVer THEN ParseSemVer(versionStr)
        ELSE IF scheme = SchemeCalVer THEN ParseCalVer(versionStr)
        ELSE ParseError

\* CalculateNextVersion that bumps the version 0.0.0 when there is no
\* current version
NextFromZeroVersion(current, scheme, bump, calverFormat, now) ==
    IF scheme = SchemeSemVer
    THEN BumpSemVer(IF current = NilVersion THEN ZeroVersion(SchemeSemVer) ELSE current,
                    bump)
    ELSE NextCalVer(current, calverFormat, now)

\* Tagger.CalculateNextVersion from the switch on the scheme onwards:
\* current is what ParseLatestVersion returned
NextFromCurrent(current, scheme, bump, calverFormat, now) ==
    IF scheme = SchemeSemVer
    THEN IF current = NilVersion
         THEN IF bump = BumpMajor
              THEN [ZeroVersion(SchemeSemVer) EXCEPT !.Major = 1]
              ELSE [ZeroVersion(SchemeSemVer) EXCEPT !.Minor = 1]
         ELSE BumpSemVer(current, bump)
    ELSE NextCalVer(current, calverFormat, now)

\* Tagger.CalculateNextVersion: the prerelease and the metadata of the
\* configuration, each applied when it is not empty
WithOverlays(next, pre, meta) ==
    IF meta # <<>>
    THEN WithMetadata(IF pre # <<>> THEN WithPrerelease(next, pre) ELSE next, meta)
    ELSE IF pre # <<>> THEN WithPrerelease(next, pre) ELSE next

\* Tagger.CalculateNextVersion after ParseLatestVersion
NextVersionOf(parsed, scheme, bump, calverFormat, pre, meta, now) ==
    IF parsed.err \/ scheme \notin {SchemeSemVer, SchemeCalVer} THEN ParseError
    ELSE [err |-> FALSE,
          v   |-> WithOverlays(NextFromCurrent(parsed.v, scheme, bump, calverFormat, now),
                               pre, meta)]

\* Tagger.CalculateNextVersion
CalculateNextVersion(names, prefix, scheme, bump, calverFormat, pre, meta, now) ==
    NextVersionOf(ParseLatestVersion(names, prefix, scheme),
                  scheme, bump, calverFormat, pre, meta, now)

\* git rev-parse --short HEAD: the abbreviated name of commit c
ShortCommit(c) == <<"c">> \o Itoa(c)

S_dev   == <<"0", ".", "0", ".", "0", "-", "d", "e", "v", "-">>
S_dirty == <<"-", "d", "i", "r", "t", "y", "-">>

\* GetVersionWithDirtyCheck that looks at the working tree only, not at
\* the commit the latest tag points at
GetVersionWithoutHeadCheck(tagMap, prefix, head, hasChanges) ==
    LET tag == LatestTag(DOMAIN tagMap, prefix)
    IN  IF tag = <<>> THEN S_dev \o ShortCommit(head)
        ELSE IF hasChanges
             THEN StripPrefix(tag, prefix) \o S_dirty \o ShortCommit(head)
             ELSE StripPrefix(tag, prefix)

\* Tagger.GetVersionWithDirtyCheck on the tags (name -> commit), HEAD and
\* the answer of git status
GetVersionWithDirtyCheck(tagMap, prefix, head, hasChanges) ==
    LET tag       == LatestTag(DOMAIN tagMap, prefix)
        tagOnHead == tagMap[tag] = head
    IN  IF tag = <<>> THEN S_dev \o ShortCommit(head)
        ELSE IF hasChanges \/ ~tagOnHead
             THEN StripPrefix(tag, prefix) \o S_dirty \o ShortCommit(head)
             ELSE StripPrefix(tag, prefix)

\* fmt.Sscanf(s, "%d", &n): an optional sign and the longest run of digits
\* at the start of s; whatever follows is left unread
SscanfInt(s) ==
    LET signed == Len(s) > 0 /\ s[1] \in {"+", "-"}
        body   == IF signed THEN Tail(s) ELSE s
        k      == IF \E i \in 1..Len(body) : ~IsDigit(body[i])
                  THEN (CHOOSE i \in 1..Len(body) :
                            ~IsDigit(body[i]) /\ \A j \in 1..(i - 1) : IsDigit(body[j])) - 1
                  ELSE Len(body)
        digits == SubSeq(body, 1, k)
    IN  IF k = 0 THEN [err |-> TRUE, n |-> 0]
        ELSE [err |-> FALSE,
              n   |-> IF signed /\ s[1] = "-" THEN 0 - DigitsVal(digits)
                      ELSE DigitsVal(digits)]

\* baseTag + "-" + suffix + "."
HotfixPrefix(baseTag, suffix) == baseTag \o <<"-">> \o suffix \o <<".">>

parseHotfixSequence(tag, baseTag, suffix) ==
    LET expectedPrefix == HotfixPrefix(baseTag, suffix)
    IN  IF ~HasPrefix(tag, expectedPrefix) THEN [err |-> TRUE, n |-> 0]
        ELSE SscanfInt(TrimPrefix(tag, expectedPrefix))

\* Tagger.listTags for the pattern baseTag-suffix.*
listTags(names, baseTag, suffix) == TagsWithPrefix(names, HotfixPrefix(baseTag, suffix))

\* the loop of GetNextHotfixTag: the largest parsed sequence, 0 when none
MaxHotfixSeq(names, baseTag, suffix) ==
    LET seqs == {parseHotfixSequence(t, baseTag, suffix).n :
                    t \in {u \in listTags(names, baseTag, suffix) :
                              ~parseHotfixSequence(u, baseTag, suffix).err}}
                \cup {0}
    IN  CHOOSE m \in seqs : \A n \in seqs : n <= m

\* GetNextHotfixTag without the increment: the largest sequence again
GetNextHotfixTagNoIncrement(names, baseTag, suffix) ==
    LET nextSeq == MaxHotfixSeq(names, baseTag, suffix)
    IN  [tag |-> HotfixPrefix(baseTag, suffix) \o Itoa(nextSeq), seq |-> nextSeq]

\* GetNextHotfixTag with a memory: every failed creation moves it on by one
GetNextHotfixTagAttempts(names, baseTag, suffix) ==
    LET attempts == Cardinality({r \in RunIds : runs[r].err = "create tag failed"})
        nextSeq  == MaxHotfixSeq(names, baseTag, suffix) + 1 + attempts
    IN  [tag |-> HotfixPrefix(baseTag, suffix) \o Itoa(nextSeq), seq |-> nextSeq]

GetNextHotfixTag(names, baseTag, suffix) ==
    LET nextSeq == MaxHotfixSeq(names, baseTag, suffix) + 1
    IN  [tag |-> HotfixPrefix(baseTag, suffix) \o Itoa(nextSeq), seq |-> nextSeq]

IsHotfixBranch(branchName, prefix) == HasPrefix(branchName, prefix)

ExtractTagFromBranch(branchName, prefix) == TrimPrefix(branchName, prefix)

----------------------------------------------------------------------------
(* Configuration (forge.yaml)                                              *)

S_v        == <<"v">>
S_api_v    == <<"a", "p", "i", "/", "v">>
S_worker_v == <<"w", "o", "r", "k", "e", "r", "/", "v">>
S_release  == <<"r", "e", "l", "e", "a", "s", "e", "/">>
S_main     == <<"m", "a", "i", "n">>
S_hotfix   == <<"h", "o", "t", "f", "i", "x">>
S_patch    == <<"p", "a", "t", "c", "h">>
S_1_0_0    == <<"1", ".", "0", ".", "0">>
F_week     == <<"2", "0", "0", "6", ".", "W", "W">>
F_date     == <<"2", "0", "0", "6", ".", "0", "1", ".", "0", "2">>
F_month    == <<"2", "0", "0", "6", ".", "0", "1">>

\* AppConfig: the settings the bump and hotfix commands read.  Hotfix holds
\* the result of GetHotfixConfig.
AppConfig(name, scheme, vprefix, format, tagPrefix, branchPrefix, suffix) ==
    [name |-> name,
     Version |-> [Scheme |-> scheme, Prefix |-> vprefix, CalVerFormat |-> format,
                  Pre |-> <<>>, Meta |-> <<>>],
     Git |-> [TagPrefix |-> tagPrefix],
     Hotfix |-> [BranchPrefix |-> branchPrefix, Suffix |-> suffix]]

\* config.Default: one app, tags v1.2.3
Default == [DefaultApp |-> "",
            Apps |-> <<AppConfig("single", SchemeSemVer, S_v, F_date, S_v,
                                 S_release, S_hotfix)>>]

\* config.DefaultMulti: api (semver, tags api/v1.2.3), worker (calver by week)
DefaultMulti ==
    [DefaultApp |-> "api",
     Apps |-> <<AppConfig("api", SchemeSemVer, S_v, F_date, S_api_v,
                          S_release, S_hotfix),
                AppConfig("worker", SchemeCalVer, S_v, F_week, S_worker_v,
                          S_release, S_hotfix)>>]

\* a single app with week-based calendar versions, tags v2025.44.1
WeekConfig == [DefaultApp |-> "",
               Apps |-> <<AppConfig("single", SchemeCalVer, S_v, F_week, S_v,
                                    S_release, S_hotfix)>>]

AppNames(c) == {c.Apps[i].name : i \in 1..Len(c.Apps)}

\* Config.GetAppConfig: the named app, the default app, or the first one;
\* 0 when there is no app of that name
GetAppConfig(c, app) ==
    LET name == IF app = "" THEN c.DefaultApp ELSE app
    IN  IF name = "" THEN 1
        ELSE IF \E i \in 1..Len(c.Apps) : c.Apps[i].name = name
             THEN CHOOSE i \in 1..Len(c.Apps) : c.Apps[i].name = name
             ELSE 0

\* Config.GetAllAppConfigs: the apps, in the order of the configuration
GetAllAppConfigs(c) == c.Apps

\* AppConfig.GetHotfixConfig
GetHotfixConfig(app) == app.Hotfix

----------------------------------------------------------------------------
(* The repository, the clock and the running commands                      *)

\* bounds of the model
MaxTags     == 4
MaxRaceTags == 3
MaxCommits  == 1
MaxWeeklyTags == 4
MaxParts    == 5
MaxSequence == 3

\* the clock stops in the first week after this year
LastYear == 2026

\* the commit HEAD points at
HeadCommit == branches[currentBranch]

TagNames == DOMAIN tags

\* a command that has not been given its arguments; stale, verified and key
\* are history: a tag was created after the run computed its tag; the run
\* has checked the working tree and found no uncommitted changes; the key
\* that ended the confirmation prompt
IdleRun ==
    [pc |-> "idle", cmd |-> "none", app |-> 0, appFlag |-> "", bump |-> "",
     dryRun |-> FALSE, force |-> FALSE, initial |-> <<>>, checkout |-> FALSE,
     baseTag |-> <<>>, suffix |-> <<>>, tag |-> <<>>, seq |-> 0,
     err |-> "", created |-> FALSE, stale |-> FALSE, verified |-> FALSE,
     interactive |-> FALSE, key |-> ""]

Finished == {"idle", "done", "failed"}

NoCall == [fn |-> "none"]

Step(r, rec) == runs' = [runs EXCEPT ![r] = rec]

\* the command returns: only its outcome is kept
Return(rec, pc, reason) ==
    [IdleRun EXCEPT !.pc = pc, !.err = reason, !.cmd = rec.cmd, !.dryRun = rec.dryRun,
                    !.baseTag = rec.baseTag, !.suffix = rec.suffix,
                    !.tag = rec.tag, !.seq = rec.seq, !.stale = rec.stale,
                    !.created = rec.created, !.verified = rec.verified,
                    !.interactive = rec.interactive, !.key = rec.key]

Fail(r, reason) == Step(r, Return(runs[r], "failed", reason))

RepoUnchanged == UNCHANGED <<tags, branches, currentBranch, dirty, clock, cfg, log, call>>

\* a command line is entered: run r starts from a fresh record
Begin(r, rec, maxTags) ==
    /\ runs[r].pc \in Finished
    /\ Cardinality(TagNames) < maxTags
    /\ Step(r, rec)
    /\ RepoUnchanged

\* forge bump [--app a] [--bump b] [--dry-run] [--force]
StartBump(r, apps, bumps, dryRuns, forces, maxTags) ==
    \E a \in apps, b \in bumps, d \in dryRuns, f \in forces :
        Begin(r, [IdleRun EXCEPT !.pc = "clean", !.cmd = "bump", !.appFlag = a,
                                 !.bump = b, !.dryRun = d, !.force = f], maxTags)

\* forge hotfix bump [--dry-run]
StartHotfixBump(r, dryRuns, maxTags) ==
    \E d \in dryRuns :
        Begin(r, [IdleRun EXCEPT !.pc = "branch", !.cmd = "hotfixBump", !.dryRun = d],
              maxTags)

\* CreateTag that goes on to TagExists and git tag -a in a dry run too
EnterCreateTagAlways(rec) == [rec EXCEPT !.pc = "exists"]

\* Tagger.CreateTag entered with the tag to create: a dry run returns
\* at once, otherwise TagExists is the next git call
EnterCreateTag(rec) ==
    IF rec.dryRun THEN Return(rec, "done", "") ELSE [rec EXCEPT !.pc = "exists"]

\* createInitialTag: the tag prefix is put in front of the version unless
\* the version carries it
InitialTagName(tagPrefix, version) ==
    IF tagPrefix # <<>> /\ ~HasPrefix(version, tagPrefix) THEN tagPrefix \o version
    ELSE version

\* tagAction up to the tag listing: CheckGitClean unless --dry-run or
\* --force, then the app's configuration, then createInitialTag when
\* --initial is given
TaCheckClean(r) ==
    LET run == runs[r]
        i   == GetAppConfig(cfg, run.appFlag)
        rec == [run EXCEPT !.app = i, !.verified = ~run.dryRun /\ ~run.force]
    IN  /\ run.pc = "clean"
        /\ IF ~run.dryRun /\ ~run.force /\ dirty THEN Fail(r, "dirty")
           ELSE IF i = 0 THEN Fail(r, "no such app")
           ELSE IF run.initial # <<>>
           THEN Step(r, EnterCreateTag(
                          [rec EXCEPT !.tag = InitialTagName(cfg.Apps[i].Git.TagPrefix,
                                                             run.initial)]))
           ELSE Step(r, [rec EXCEPT !.pc = "hasTags"])
        /\ RepoUnchanged

\* tagAction: CheckForExistingTags
TaHasTags(r) ==
    LET run == runs[r]
        app == cfg.Apps[run.app]
    IN  /\ run.pc = "hasTags"
        /\ IF TagsWithPrefix(TagNames, app.Git.TagPrefix) = {} THEN Fail(r, "no tags")
           ELSE Step(r, [run EXCEPT !.pc = "calc"])
        /\ RepoUnchanged

\* tagAction: the bump type, CalculateNextVersion, the tag name, and the
\* confirmation prompt of the interactive mode unless --dry-run
TaCalc(r) ==
    LET run  == runs[r]
        app  == cfg.Apps[run.app]
        next == CalculateNextVersion(TagNames, app.Git.TagPrefix, app.Version.Scheme,
                                     run.bump, app.Version.CalVerFormat,
                                     app.Version.Pre, app.Version.Meta, clock)
        tag  == WithPrefix(String(next.v), app.Version.Prefix)
    IN  /\ run.pc = "calc"
        /\ IF run.bump \notin {BumpMajor, BumpMinor, BumpPatch}
           THEN Fail(r, "invalid bump type")
           ELSE IF next.err THEN Fail(r, "parse latest version")
           ELSE IF run.interactive /\ ~run.dryRun
           THEN Step(r, [run EXCEPT !.tag = tag, !.stale = FALSE, !.pc = "confirm"])
           ELSE Step(r, EnterCreateTag([run EXCEPT !.tag = tag, !.stale = FALSE]))
        /\ RepoUnchanged

\* confirmationModel.Update on a key message: the model, and whether the
\* program quits
Update(m, key) ==
    IF key \in {"ctrl+c", "q", "esc"} THEN [m |-> [m EXCEPT !.canceled = TRUE], quit |-> TRUE]
    ELSE IF key \in {"y", "Y"}
    THEN [m |-> [m EXCEPT !.yes = TRUE, !.answered = TRUE], quit |-> TRUE]
    ELSE IF key \in {"n", "N"}
    THEN [m |-> [m EXCEPT !.yes = FALSE, !.answered = TRUE], quit |-> TRUE]
    ELSE IF key = "enter"
    THEN [m |-> [m EXCEPT !.yes = TRUE, !.answered = TRUE], quit |-> TRUE]
    ELSE [m |-> m, quit |-> FALSE]

\* the keys the user presses at the prompt; x is any other key
Keys == {"y", "Y", "n", "N", "enter", "q", "esc", "ctrl+c", "x"}

\* tagAction: PromptConfirmation, one key message of the prompt that starts
\* with yes = true.  A key that does not end the prompt leaves it open.
TaConfirm(r) ==
    LET run == runs[r]
    IN  /\ run.pc = "confirm"
        /\ \E key \in Keys :
             LET u == Update([yes |-> TRUE, answered |-> FALSE, canceled |-> FALSE], key)
             IN  IF ~u.quit THEN UNCHANGED runs
                 ELSE IF u.m.canceled
                 THEN Step(r, Return([run EXCEPT !.key = key], "failed",
                                     "confirmation canceled"))
                 ELSE IF ~u.m.yes THEN Step(r, Return([run EXCEPT !.key = key], "done", ""))
                 ELSE Step(r, EnterCreateTag([run EXCEPT !.key = key]))
        /\ RepoUnchanged

\* Tagger.CreateTag: TagExists
CtExists(r) ==
    LET run == runs[r]
    IN  /\ run.pc = "exists"
        /\ IF run.tag \in TagNames THEN Fail(r, "tag already exists")
           ELSE Step(r, [run EXCEPT !.pc = "create"])
        /\ RepoUnchanged

\* Tagger.CreateTag: git tag -a, which refuses to replace an existing tag
CtCreate(r) ==
    LET run == runs[r]
    IN  /\ run.pc = "create"
        /\ IF run.tag \in TagNames
           THEN /\ Fail(r, "create tag failed: tag already exists")
                /\ UNCHANGED <<tags, log>>
           ELSE /\ runs' = [q \in RunIds |->
                              IF q = r THEN Return([run EXCEPT !.created = TRUE], "done", "")
                              ELSE [runs[q] EXCEPT !.stale = TRUE]]
                /\ tags' = tags @@ (run.tag :> HeadCommit)
                /\ log' = Append(log, [cmd |-> run.cmd, tag |-> run.tag,
                                       app |-> run.app, seq |-> run.seq, day |-> clock,
                                       force |-> run.force, verified |-> run.verified,
                                       key |-> run.key,
                                       base |-> run.baseTag,
                                       baseExists |-> run.baseTag \in TagNames])
        /\ UNCHANGED <<branches, currentBranch, dirty, clock, cfg, call>>

\* Tagger.CreateTag: git tag -a exits non-zero for a reason of its own (no
\* committer identity, a lock, a hook); MustSucceed turns that into the error
CtCreateFails(r) ==
    /\ runs[r].pc = "create"
    /\ Fail(r, "create tag failed")
    /\ RepoUnchanged

\* hotfixBumpAction: GetCurrentBranch and the search for the app whose
\* hotfix branch prefix the branch carries
HbDetect(r) ==
    LET run     == runs[r]
        apps    == GetAllAppConfigs(cfg)
        matches == {i \in 1..Len(apps) :
                       IsHotfixBranch(currentBranch, GetHotfixConfig(apps[i]).BranchPrefix)}
        i       == CHOOSE m \in matches : \A n \in matches : m <= n
        hotfixCfg == GetHotfixConfig(apps[i])
    IN  /\ run.pc = "branch"
        /\ IF matches = {} THEN Fail(r, "not on a hotfix branch")
           ELSE Step(r, [run EXCEPT
                           !.app = i,
                           !.baseTag = ExtractTagFromBranch(currentBranch, hotfixCfg.BranchPrefix),
                           !.suffix = hotfixCfg.Suffix,
                           !.pc = "hclean"])
        /\ RepoUnchanged

\* hotfixBumpAction that goes on to GetNextHotfixTag without a look at the
\* working tree
HbSkipValidateClean(r) ==
    /\ runs[r].pc = "hclean"
    /\ Step(r, [runs[r] EXCEPT !.pc = "next"])
    /\ RepoUnchanged

\* hotfixBumpAction and quickHotfixBump: ValidateWorkingTreeClean
HbValidateClean(r) ==
    LET run == runs[r]
    IN  /\ run.pc = "hclean"
        /\ IF dirty THEN Fail(r, "dirty")
           ELSE Step(r, [run EXCEPT !.pc = "next", !.verified = TRUE])
        /\ RepoUnchanged

\* hotfixBumpAction: GetNextHotfixTag, then CreateHotfixTag
HbGetNext(r) ==
    LET run  == runs[r]
        next == GetNextHotfixTag(TagNames, run.baseTag, run.suffix)
    IN  /\ run.pc = "next"
        /\ Step(r, EnterCreateTag([run EXCEPT !.tag = next.tag, !.seq = next.seq,
                                              !.stale = FALSE]))
        /\ RepoUnchanged

\* the user edits a file
Edit ==
    /\ ~dirty
    /\ dirty' = TRUE
    /\ UNCHANGED <<tags, branches, currentBranch, clock, cfg, runs, log, call>>

\* the user commits the changes to the checked-out branch
Commit ==
    /\ dirty
    /\ \A b \in DOMAIN branches : branches[b] < MaxCommits
    /\ dirty' = FALSE
    /\ branches' = [branches EXCEPT ![currentBranch] =
                       1 + CHOOSE m \in {branches[b] : b \in DOMAIN branches} :
                               \A b \in DOMAIN branches : branches[b] <= m]
    /\ UNCHANGED <<tags, currentBranch, clock, cfg, runs, log, call>>

\* the user checks out another branch
Checkout ==
    /\ ~dirty
    /\ \E b \in DOMAIN branches \ {currentBranch} : currentBranch' = b
    /\ UNCHANGED <<tags, branches, dirty, clock, cfg, runs, log, call>>

\* a week passes between two commands
Tick ==
    /\ \A r \in RunIds : runs[r].pc \in Finished
    /\ clock.year <= LastYear
    /\ clock' = AddDays(clock, 7)
    /\ UNCHANGED <<tags, branches, currentBranch, dirty, cfg, runs, log, call>>

\* the steps of a command in progress
RunStep(r) ==
    \/ TaCheckClean(r)
    \/ TaHasTags(r)
    \/ TaCalc(r)
    \/ HbDetect(r)
    \/ HbValidateClean(r)
    \/ HbGetNext(r)
    \/ CtExists(r)
    \/ CtCreate(r)

----------------------------------------------------------------------------
(* Spec: one forge command at a time, bump or hotfix bump, on a repository *)
(* that holds the release 1.0.0 and its hotfix branch; git itself works    *)

InitRepo(c) ==
    /\ cfg = c
    /\ tags = (c.Apps[1].Git.TagPrefix \o S_1_0_0) :> 0
    /\ branches = (S_main :> 0)
                  @@ ((S_release \o c.Apps[1].Git.TagPrefix \o S_1_0_0) :> 0)
    /\ currentBranch = S_release \o c.Apps[1].Git.TagPrefix \o S_1_0_0
    /\ dirty = FALSE
    /\ clock = [year |-> 2025, yday |-> 275]
    /\ runs = [r \in RunIds |-> IdleRun]
    /\ log = <<>>

Init ==
    /\ \E c \in {Default, DefaultMulti} : InitRepo(c)
    /\ call = NoCall

Next ==
    \/ StartBump(1, AppNames(cfg) \cup {""}, {BumpPatch, BumpMinor},
                 BOOLEAN, {FALSE}, MaxTags)
    \/ StartHotfixBump(1, BOOLEAN, MaxTags)
    \/ RunStep(1)
    \/ Edit
    \/ Commit
    \/ Checkout

Spec == Init /\ [][Next]_vars

----------------------------------------------------------------------------
(* SpecRace: two forge commands interleaved at their git calls, and git    *)
(* tag -a may fail                                                         *)

NextRace ==
    \/ \E r \in RunIds : StartBump(r, {""}, {BumpPatch}, {FALSE}, {FALSE}, MaxRaceTags)
    \/ \E r \in RunIds : StartHotfixBump(r, {FALSE}, MaxRaceTags)
    \/ \E r \in RunIds : RunStep(r)
    \/ \E r \in RunIds : CtCreateFails(r)
    \/ Edit
    \/ Commit

SpecRace == Init /\ [][NextRace]_vars

----------------------------------------------------------------------------
(* SpecWeekly: forge bump, one run at a time, with week-based calendar     *)
(* versions, from the first week of 2026 to the first week of 2027; the    *)
(* repository holds the release of week 52 of 2025                         *)

S_2025_52_1 == <<"2", "0", "2", "5", ".", "5", "2", ".", "1">>

InitWeekly ==
    /\ cfg = WeekConfig
    /\ tags = (S_v \o S_2025_52_1) :> 0
    /\ branches = (S_main :> 0)
    /\ currentBranch = S_main
    /\ dirty = FALSE
    /\ clock = [year |-> LastYear, yday |-> 1]
    /\ runs = [r \in RunIds |-> IdleRun]
    /\ log = <<>>
    /\ call = NoCall

NextWeekly ==
    \/ StartBump(1, {""}, {BumpPatch}, {FALSE}, {FALSE}, MaxWeeklyTags)
    \/ TaCheckClean(1)
    \/ TaHasTags(1)
    \/ TaCalc(1)
    \/ CtExists(1)
    \/ CtCreate(1)
    \/ Tick

SpecWeekly == InitWeekly /\ [][NextWeekly]_vars

----------------------------------------------------------------------------
(* SpecNextCalVer: NextCalVer on a day, a format and a current version,    *)
(* its result printed by String and read back by ParseCalVer               *)

CalVerFormats == {F_week, F_date, F_month}

\* the Thursdays of 2026, one in each of its 53 ISO weeks
SampleDays == {[year |-> LastYear, yday |-> 1 + 7 * k] : k \in 0..52}

\* 2025-10-02
OtherDay == [year |-> 2025, yday |-> 275]

\* nil, and versions of the period of the day and of another period
CurrentVersions(format, day) ==
    {NilVersion}
    \cup {[ZeroVersion(SchemeCalVer) EXCEPT
             !.CalVerDate = FormatCalVer(d, format), !.CalVerSequence = n] :
          d \in {day, OtherDay}, n \in 0..MaxSequence}

InitNextCalVer ==
    /\ InitRepo(WeekConfig)
    /\ \E f \in CalVerFormats, d \in SampleDays :
         \E c \in CurrentVersions(f, d) :
            call = [fn |-> "args", current |-> c, format |-> f, now |-> d]

CallNextCalVer ==
    /\ call.fn = "args"
    /\ call' = [fn |-> "NextCalVer", current |-> call.current, format |-> call.format,
                now |-> call.now,
                out |-> NextCalVer(call.current, call.format, call.now)]
    /\ UNCHANGED <<tags, branches, currentBranch, dirty, clock, cfg, runs, log>>

SpecNextCalVer == InitNextCalVer /\ [][CallNextCalVer]_vars

----------------------------------------------------------------------------
(* SpecParseCalVer: ParseCalVer on dotted strings of one to MaxParts parts *)

Chars(a, b) == <<a, b>>

S_2025 == <<"2", "0", "2", "5">>

\* second to fourth parts: months, weeks, days, sequences, and a word
PartPool ==
    {Chars("0", "3"), Chars("0", "5"), Chars("1", "2"), Chars("1", "3"),
     Chars("3", "1"), Chars("3", "2"), Chars("4", "0"), Chars("5", "3"),
     Chars("5", "4"), <<"1">>, Chars("a", "b")}

\* the parts of longer strings
LongPool == {<<"1">>, Chars("4", "0")}

PartLists ==
    UNION {{<<S_2025>> \o rest :
              rest \in [1..(n - 1) -> IF n <= 4 THEN PartPool ELSE LongPool]} :
           n \in 1..MaxParts}

\* nothing, or a prerelease after the core
Overlays == {<<>>, <<"-", "r", "c", ".", "1">>}

InitParseCalVer ==
    /\ InitRepo(WeekConfig)
    /\ \E p \in PartLists, o \in Overlays :
          call = [fn |-> "args", parts |-> p, s |-> Join(p, ".") \o o]

CallParseCalVer ==
    /\ call.fn = "args"
    /\ call' = [fn |-> "ParseCalVer", parts |-> call.parts, s |-> call.s,
                out |-> ParseCalVer(call.s)]
    /\ UNCHANGED <<tags, branches, currentBranch, dirty, clock, cfg, runs, log>>

SpecParseCalVer == InitParseCalVer /\ [][CallParseCalVer]_vars

----------------------------------------------------------------------------
(* SpecHotfixTags: GetNextHotfixTag for v1.0.0 on repositories whose tags  *)
(* were made by forge or by hand                                           *)

S_2 == <<"2">>
S_10 == <<"1", "0">>

BaseTag == S_v \o S_1_0_0

TagPool ==
    {BaseTag,
     HotfixPrefix(BaseTag, S_hotfix) \o <<"1">>,
     HotfixPrefix(BaseTag, S_hotfix) \o S_2,
     HotfixPrefix(BaseTag, S_hotfix) \o S_10,
     HotfixPrefix(BaseTag, S_hotfix) \o <<"a", "b", "c">>,
     HotfixPrefix(BaseTag, S_hotfix) \o <<"3", "a", "b", "c">>,
     HotfixPrefix(BaseTag, S_hotfix) \o <<"4", ".", "1">>,
     HotfixPrefix(BaseTag, S_patch) \o <<"7">>,
     HotfixPrefix(S_v \o <<"1", ".", "0", ".", "1">>, S_hotfix) \o <<"5">>}

InitHotfixTags ==
    /\ cfg = Default
    /\ \E T \in SUBSET TagPool : tags = [t \in T |-> 0]
    /\ branches = (S_main :> 0) @@ ((S_release \o BaseTag) :> 0)
    /\ currentBranch = S_release \o BaseTag
    /\ dirty = FALSE
    /\ clock = OtherDay
    /\ runs = [r \in RunIds |-> IdleRun]
    /\ log = <<>>
    /\ call = NoCall

CallGetNextHotfixTag ==
    /\ call.fn = "none"
    /\ call' = [fn |-> "GetNextHotfixTag", baseTag |-> BaseTag, suffix |-> S_hotfix,
                out |-> GetNextHotfixTag(TagNames, BaseTag, S_hotfix)]
    /\ UNCHANGED <<tags, branches, currentBranch, dirty, clock, cfg, runs, log>>

SpecHotfixTags == InitHotfixTags /\ [][CallGetNextHotfixTag]_vars

----------------------------------------------------------------------------
(* SpecVersion: GetVersionWithDirtyCheck with the prefix v on repositories *)
(* with any of a few tags at any commit, HEAD at any commit, the working   *)
(* tree clean or not                                                       *)

S_1_0_1 == <<"1", ".", "0", ".", "1">>
S_1_1_0 == <<"1", ".", "1", ".", "0">>

VersionTagPool ==
    {S_v \o S_1_0_0, S_v \o S_1_0_1, S_v \o S_1_1_0,
     HotfixPrefix(S_v \o S_1_0_0, S_hotfix) \o <<"1">>,
     S_api_v \o S_1_0_0}

InitVersion ==
    /\ cfg = Default
    /\ \E T \in SUBSET VersionTagPool : \E f \in [T -> 0..MaxCommits] : tags = f
    /\ \E h \in 0..MaxCommits : branches = (S_main :> h)
    /\ currentBranch = S_main
    /\ dirty \in BOOLEAN
    /\ clock = OtherDay
    /\ runs = [r \in RunIds |-> IdleRun]
    /\ log = <<>>
    /\ call = NoCall

CallGetVersionWithDirtyCheck ==
    /\ call.fn = "none"
    /\ call' = [fn |-> "GetVersionWithDirtyCheck", prefix |-> cfg.Apps[1].Git.TagPrefix,
                out |-> GetVersionWithDirtyCheck(tags, cfg.Apps[1].Git.TagPrefix,
                                                 HeadCommit, dirty)]
    /\ UNCHANGED <<tags, branches, currentBranch, dirty, clock, cfg, runs, log>>

SpecVersion == InitVersion /\ [][CallGetVersionWithDirtyCheck]_vars

----------------------------------------------------------------------------
(* SpecHotfixVersion: IsHotfixVersion, ParseHotfixVersion and              *)
(* IncrementHotfixSequence on tags put together from a base and a tail     *)

S_2025_44    == S_2025 \o <<".", "4", "4">>
S_2025_10_02 == S_2025 \o <<".", "1", "0", ".", "0", "2">>
S_rc_1       == <<"-", "r", "c", ".", "1">>
S_build_123  == <<"+", "b", "u", "i", "l", "d", ".", "1", "2", "3">>

\* version tags as they are released: semver, calver, namespaced, prerelease
VersionBases ==
    {S_v \o S_1_0_0, S_2025_44 \o <<".", "1">>, S_2025_10_02, S_2025_44,
     S_api_v \o S_1_0_0, S_v \o S_1_0_0 \o S_rc_1}

\* a word and the empty string
OtherBases == {<<"f", "o", "o">>, <<>>}

\* -hotfix.N and -patch.N
HotfixTails ==
    {<<"-">> \o S_hotfix \o <<".", "1">>, <<"-">> \o S_hotfix \o <<".", "5">>,
     <<"-">> \o S_hotfix \o <<".", "9">>, <<"-">> \o S_patch \o <<".", "3">>}

\* an ordinary prerelease
PrereleaseTails == {S_rc_1}

\* nothing, build metadata, no sequence, a sequence that is not a number
PlainTails ==
    {<<>>, S_build_123, <<"-">> \o S_hotfix, <<"-">> \o S_hotfix \o <<".", "a", "b", "c">>}

\* two dots, an empty sequence, an empty suffix, a sign, a leading zero
OddTails ==
    {<<"-">> \o S_hotfix \o <<".", "1", ".", "2">>, <<"-">> \o S_hotfix \o <<".">>,
     <<"-", ".", "1">>, <<"-">> \o S_hotfix \o <<".", "+", "5">>,
     <<"-">> \o S_hotfix \o <<".", "0", "5">>}

InitHotfixVersion ==
    /\ InitRepo(Default)
    /\ \E b \in VersionBases \cup OtherBases :
         \E t \in HotfixTails \cup PrereleaseTails \cup PlainTails \cup OddTails :
            call = [fn |-> "args", base |-> b, tail |-> t, tag |-> b \o t]

CallIsHotfixVersion ==
    /\ call.fn = "args"
    /\ call' = [fn |-> "IsHotfixVersion", base |-> call.base, tail |-> call.tail,
                tag |-> call.tag, out |-> IsHotfixVersion(call.tag)]
    /\ UNCHANGED <<tags, branches, currentBranch, dirty, clock, cfg, runs, log>>

CallIncrementHotfixSequence ==
    /\ call.fn = "args"
    /\ call' = [fn |-> "IncrementHotfixSequence", base |-> call.base, tail |-> call.tail,
                tag |-> call.tag, out |-> IncrementHotfixSequence(call.tag)]
    /\ UNCHANGED <<tags, branches, currentBranch, dirty, clock, cfg, runs, log>>

NextHotfixVersion == CallIsHotfixVersion \/ CallIncrementHotfixSequence

SpecHotfixVersion == InitHotfixVersion /\ [][NextHotfixVersion]_vars

----------------------------------------------------------------------------
(* SpecSemVer: BumpSemVer on versions with small numbers, and              *)
(* CalculateNextVersion with the scheme semver and the prefix v on         *)
(* repositories with any of a few tags                                     *)

MaxNumber == 2

S_0_1_0 == <<"0", ".", "1", ".", "0">>

SemVerReceivers ==
    {[ZeroVersion(SchemeSemVer) EXCEPT !.Major = a, !.Minor = b, !.Patch = c, !.Pre = p] :
        a \in 0..MaxNumber, b \in 0..MaxNumber, c \in 0..MaxNumber,
        p \in {<<>>, Tail(S_rc_1)}}

InitSemVer ==
    /\ cfg = Default
    /\ \E T \in SUBSET VersionTagPool : tags = [t \in T |-> 0]
    /\ branches = (S_main :> 0)
    /\ currentBranch = S_main
    /\ dirty = FALSE
    /\ clock = OtherDay
    /\ runs = [r \in RunIds |-> IdleRun]
    /\ log = <<>>
    /\ \E v \in SemVerReceivers : \E b \in {BumpMajor, BumpMinor, BumpPatch} :
         \E p \in {<<>>, Tail(S_rc_1)} :
            call = [fn |-> "args", v |-> v, bump |-> b, pre |-> p]

\* v.BumpSemVer(bump): before is what the receiver held at the call, v what
\* it holds after it (BumpSemVer assigns to the fields of next only)
CallBumpSemVer ==
    /\ call.fn = "args"
    /\ call' = [fn |-> "BumpSemVer", before |-> call.v, v |-> call.v,
                bump |-> call.bump, pre |-> call.pre,
                out |-> BumpSemVer(call.v, call.bump)]
    /\ UNCHANGED <<tags, branches, currentBranch, dirty, clock, cfg, runs, log>>

CallCalculateNextVersion ==
    /\ call.fn = "args"
    /\ call' = [fn |-> "CalculateNextVersion", v |-> call.v, bump |-> call.bump,
                pre |-> call.pre, prefix |-> cfg.Apps[1].Git.TagPrefix,
                out |-> CalculateNextVersion(TagNames, cfg.Apps[1].Git.TagPrefix,
                                             SchemeSemVer, call.bump, <<>>, call.pre,
                                             <<>>, clock)]
    /\ UNCHANGED <<tags, branches, currentBranch, dirty, clock, cfg, runs, log>>

NextSemVer == CallBumpSemVer \/ CallCalculateNextVersion

SpecSemVer == InitSemVer /\ [][NextSemVer]_vars

----------------------------------------------------------------------------
(* SpecRoundTrip: ParseSemVer and ParseCalVer on strings in canonical      *)
(* form, the result printed by String                                      *)

\* nothing, a prerelease, build metadata, both
CanonicalOverlays == {<<>>, S_rc_1, S_build_123, S_rc_1 \o S_build_123}

\* MAJOR.MINOR.PATCH[-PRERELEASE][+META]
CanonicalSemVer ==
    {Itoa(a) \o <<".">> \o Itoa(b) \o <<".">> \o Itoa(c) \o o :
        a \in 0..MaxNumber, b \in 0..MaxNumber, c \in 0..MaxNumber,
        o \in CanonicalOverlays}

\* PERIOD[.SEQUENCE][-PRERELEASE][+META], the period a day printed in one of
\* the formats
CanonicalCalVer ==
    {FormatCalVer(d, f) \o q \o o :
        d \in SampleDays, f \in CalVerFormats,
        q \in {<<>>} \cup {<<".">> \o Itoa(n) : n \in 1..MaxSequence},
        o \in CanonicalOverlays}

InitRoundTrip ==
    /\ InitRepo(Default)
    /\ \/ \E s \in CanonicalSemVer : call = [fn |-> "args", scheme |-> SchemeSemVer, s |-> s]
       \/ \E s \in CanonicalCalVer : call = [fn |-> "args", scheme |-> SchemeCalVer, s |-> s]

CallParseSemVer ==
    /\ call.fn = "args"
    /\ call.scheme = SchemeSemVer
    /\ call' = [fn |-> "ParseSemVer", scheme |-> call.scheme, s |-> call.s,
                out |-> ParseSemVer(call.s)]
    /\ UNCHANGED <<tags, branches, currentBranch, dirty, clock, cfg, runs, log>>

CallParseCalVerString ==
    /\ call.fn = "args"
    /\ call.scheme = SchemeCalVer
    /\ call' = [fn |-> "ParseCalVer", scheme |-> call.scheme, s |-> call.s,
                out |-> ParseCalVer(call.s)]
    /\ UNCHANGED <<tags, branches, currentBranch, dirty, clock, cfg, runs, log>>

NextRoundTrip == CallParseSemVer \/ CallParseCalVerString

SpecRoundTrip == InitRoundTrip /\ [][NextRoundTrip]_vars

----------------------------------------------------------------------------
(* SpecHotfixFlow: one forge command at a time, bump, bump --initial,      *)
(* hotfix create, hotfix bump or hotfix bump --base, on a repository that  *)
(* holds the release 1.0.0 and may hold a tag and a branch made by hand    *)

MaxFlowTags == 3

S_2_0_0 == <<"2", ".", "0", ".", "0">>

\* Config.DetectAppFromTag: the first app whose tag prefix the tag starts
\* with; 0 when there is none
DetectAppFromTag(c, tag) ==
    LET matches == {i \in 1..Len(c.Apps) : HasPrefix(tag, c.Apps[i].Git.TagPrefix)}
    IN  IF matches = {} THEN 0 ELSE CHOOSE m \in matches : \A n \in matches : m <= n

\* ValidateHotfixBaseTag: the error, "" for nil
ValidateHotfixBaseTag(names, tag) ==
    IF tag \notin names THEN "tag does not exist"
    ELSE IF IsHotfixVersion(tag) THEN "cannot create hotfix from hotfix version"
    ELSE ""

\* Tagger.branchExists: git rev-parse --verify <name> succeeds when the
\* name resolves to a commit, as the name of a branch or as the name of a tag
branchExists(tagMap, brs, branchName) ==
    branchName \in DOMAIN brs \/ branchName \in DOMAIN tagMap

\* Tagger.CreateHotfixBranch on the tags tagMap, the branches brs and the
\* checked-out branch cur; checkoutOk is whether git checkout succeeds
CreateHotfixBranch(tagMap, brs, cur, tag, branchPrefix, checkout, dryRun, checkoutOk) ==
    LET branchName == branchPrefix \o tag
        unchanged  == [name |-> <<>>, branches |-> brs, current |-> cur, tags |-> tagMap]
    IN  IF tag \notin DOMAIN tagMap
        THEN [unchanged EXCEPT !.name = <<>>] @@ [err |-> "tag does not exist"]
        ELSE IF branchExists(tagMap, brs, branchName)
        THEN unchanged @@ [err |-> "branch already exists"]
        ELSE IF dryRun
        THEN [unchanged EXCEPT !.name = branchName] @@ [err |-> ""]
        ELSE IF checkout /\ ~checkoutOk
        THEN [unchanged EXCEPT !.branches = brs @@ (branchName :> tagMap[tag])]
             @@ [err |-> "failed to checkout branch"]
        ELSE [unchanged EXCEPT !.name = branchName,
                               !.branches = brs @@ (branchName :> tagMap[tag]),
                               !.current = IF checkout THEN branchName ELSE cur]
             @@ [err |-> ""]

\* forge bump --initial <version> [--force]
StartBumpInitial(r, versions, forces, maxTags) ==
    \E v \in versions, f \in forces :
        Begin(r, [IdleRun EXCEPT !.pc = "clean", !.cmd = "bump", !.initial = v,
                                 !.force = f], maxTags)

\* forge hotfix create <base-tag> [--dry-run] [--no-checkout]
StartHotfixCreate(r, bases, dryRuns, checkouts, maxTags) ==
    \E b \in bases, d \in dryRuns, c \in checkouts :
        Begin(r, [IdleRun EXCEPT !.pc = "detect", !.cmd = "hotfixCreate", !.baseTag = b,
                                 !.dryRun = d, !.checkout = c], maxTags)

\* forge hotfix bump --base <base-tag> [--dry-run]
StartQuickHotfixBump(r, bases, dryRuns, maxTags) ==
    \E b \in bases, d \in dryRuns :
        Begin(r, [IdleRun EXCEPT !.pc = "detect", !.cmd = "hotfixBumpBase", !.baseTag = b,
                                 !.dryRun = d, !.checkout = TRUE], maxTags)

\* hotfixCreateAction and quickHotfixBump: DetectAppFromTag, GetAppConfig
HcDetect(r) ==
    LET run == runs[r]
        i   == DetectAppFromTag(cfg, run.baseTag)
    IN  /\ run.pc = "detect"
        /\ IF i = 0 THEN Fail(r, "no app for tag")
           ELSE Step(r, [run EXCEPT !.app = i, !.pc = "validate",
                                    !.suffix = GetHotfixConfig(cfg.Apps[i]).Suffix])
        /\ RepoUnchanged

\* hotfixCreateAction and quickHotfixBump: ValidateHotfixBaseTag
HcValidateBaseTag(r) ==
    LET run == runs[r]
        err == ValidateHotfixBaseTag(TagNames, run.baseTag)
    IN  /\ run.pc = "validate"
        /\ IF err # "" THEN Fail(r, err) ELSE Step(r, [run EXCEPT !.pc = "chb"])
        /\ RepoUnchanged

\* hotfixCreateAction and quickHotfixBump: CreateHotfixBranch; git checkout
\* of the new branch may refuse when the working tree has changes.  created
\* is set when the branch was made.
HcCreateHotfixBranch(r) ==
    LET run    == runs[r]
        prefix == GetHotfixConfig(cfg.Apps[run.app]).BranchPrefix
    IN  /\ run.pc = "chb"
        /\ \E ok \in (IF dirty THEN BOOLEAN ELSE {TRUE}) :
             LET res == CreateHotfixBranch(tags, branches, currentBranch, run.baseTag,
                                           prefix, run.checkout, run.dryRun, ok)
             IN  /\ branches' = res.branches
                 /\ currentBranch' = res.current
                 /\ IF res.err # ""
                    THEN Step(r, Return([run EXCEPT !.created = (res.branches # branches)],
                                        "failed", res.err))
                    ELSE IF run.cmd = "hotfixCreate"
                    THEN Step(r, Return([run EXCEPT !.created = ~run.dryRun], "done", ""))
                    ELSE Step(r, [run EXCEPT !.pc = "hclean", !.created = ~run.dryRun])
        /\ UNCHANGED <<tags, dirty, clock, cfg, log, call>>

\* the steps of hotfix create and of the start of hotfix bump --base
HotfixStep(r) ==
    \/ HcDetect(r)
    \/ HcValidateBaseTag(r)
    \/ HcCreateHotfixBranch(r)

\* a tag named like the hotfix branch of v1.0.0
HandTags == {S_release \o S_v \o S_1_0_0}

\* branches the user made with git branch under the prefix release/
HandBranches == {S_release \o HotfixPrefix(S_v \o S_1_0_0, S_hotfix) \o <<"1">>,
                 S_release \o <<"2", ".", "0">>}

\* base tags given on the command line
BaseArgs == {S_v \o S_1_0_0, HotfixPrefix(S_v \o S_1_0_0, S_hotfix) \o <<"1">>,
             S_v \o S_2_0_0}

InitHotfixFlow ==
    /\ cfg = Default
    /\ \E T \in SUBSET HandTags : tags = [t \in T \cup {S_v \o S_1_0_0} |-> 0]
    /\ \E B \in SUBSET HandBranches : branches = [b \in B \cup {S_main} |-> 0]
    /\ currentBranch = S_main
    /\ dirty = FALSE
    /\ clock = OtherDay
    /\ runs = [r \in RunIds |-> IdleRun]
    /\ log = <<>>
    /\ call = NoCall

\* the user works between two commands
BetweenCommands == runs[1].pc \in Finished

NextHotfixFlow ==
    \/ StartBump(1, {""}, {BumpPatch}, BOOLEAN, BOOLEAN, MaxFlowTags)
    \/ StartBumpInitial(1, {S_2_0_0}, {FALSE}, MaxFlowTags)
    \/ StartHotfixCreate(1, BaseArgs, BOOLEAN, {TRUE}, MaxFlowTags)
    \/ StartHotfixBump(1, BOOLEAN, MaxFlowTags)
    \/ StartQuickHotfixBump(1, BaseArgs, BOOLEAN, MaxFlowTags)
    \/ RunStep(1)
    \/ HotfixStep(1)
    \/ (BetweenCommands /\ Edit)
    \/ (BetweenCommands /\ Commit)
    \/ (BetweenCommands /\ Checkout)

SpecHotfixFlow == InitHotfixFlow /\ [][NextHotfixFlow]_vars

----------------------------------------------------------------------------
(* SpecCreateHotfixBranch: CreateHotfixBranch on repositories with any of  *)
(* a few tags and branches, for the branch prefixes release/ and hotfix/   *)

S_hotfix_slash == S_hotfix \o <<"/">>

BranchTagPool == {S_v \o S_1_0_0, S_api_v \o S_1_0_0} \cup HandTags

BranchPool == {S_release \o S_v \o S_1_0_0, S_hotfix_slash \o S_v \o S_1_0_0,
               S_release \o S_api_v \o S_1_0_0}

InitCreateHotfixBranch ==
    /\ cfg = Default
    /\ \E T \in SUBSET BranchTagPool : \E f \in [T -> 0..MaxCommits] : tags = f
    /\ \E B \in SUBSET BranchPool : branches = [b \in B \cup {S_main} |-> 0]
    /\ currentBranch = S_main
    /\ dirty \in BOOLEAN
    /\ clock = OtherDay
    /\ runs = [r \in RunIds |-> IdleRun]
    /\ log = <<>>
    /\ call = NoCall

\* tagger.CreateHotfixBranch(ctx, tag, branchPrefix, checkout) with the
\* tagger's dryRun; call keeps the arguments, the repository before the call
\* and the result
CallCreateHotfixBranch ==
    /\ call.fn = "none"
    /\ \E tag \in {S_v \o S_1_0_0, S_api_v \o S_1_0_0},
          prefix \in {S_release, S_hotfix_slash},
          checkout \in BOOLEAN, dryRun \in BOOLEAN,
          ok \in (IF dirty THEN BOOLEAN ELSE {TRUE}) :
         LET res == CreateHotfixBranch(tags, branches, currentBranch, tag, prefix,
                                       checkout, dryRun, ok)
         IN  /\ branches' = res.branches
             /\ currentBranch' = res.current
             /\ tags' = res.tags
             /\ call' = [fn |-> "CreateHotfixBranch", tag |-> tag,
                         branchPrefix |-> prefix, checkout |-> checkout,
                         dryRun |-> dryRun, tagsBefore |-> tags,
                         branchesBefore |-> branches, out |-> res]
    /\ UNCHANGED <<dirty, clock, cfg, runs, log>>

SpecCreateHotfixBranch == InitCreateHotfixBranch /\ [][CallCreateHotfixBranch]_vars

----------------------------------------------------------------------------
(* SpecGit: LatestTag, GetVersionWithDirtyCheck, GetCurrentBranch and      *)
(* ListBranches when one of the git invocations they make fails or the     *)
(* caller's context is cancelled while it is in flight                     *)

\* what happens to one invocation: git exits non-zero, git exits non-zero
\* with "not a git repository" on stderr, the caller's context is cancelled
\* before git has written its output, or after
FaultKinds == {"exit", "notRepo", "cancel", "cancelLate"}

\* no fault, or one fault at the at-th invocation of the operation
Faults ==
    {[at |-> 0, kind |-> "none"]}
    \cup {[at |-> k, kind |-> f] : k \in 1..5, f \in FaultKinds}

\* run.Cmd and run.CmdInDir, the k-th invocation of an operation: "ok", or
\* how it failed.  exec.CommandContext kills the process when ctx is
\* cancelled; context.Background() is never cancelled
Cmd(fault, k, callersCtx) ==
    IF fault.at # k THEN "ok"
    ELSE IF fault.kind \in {"cancel", "cancelLate"}
    THEN IF callersCtx THEN fault.kind ELSE "ok"
    ELSE fault.kind

\* Result.Stdout: a process that failed has written nothing, except the one
\* that was killed late
Stdout(result, output) == IF result \in {"ok", "cancelLate"} THEN output ELSE <<>>

\* Tagger.LatestTag on the result of git tag -l: the exit code of a failed
\* process is never 0
LatestTagOn(result, names, prefix) ==
    IF result # "ok" /\ result = "notRepo" THEN [err |-> TRUE, tag |-> <<>>]
    ELSE IF result # "ok" /\ Stdout(result, LatestTag(names, prefix)) = <<>>
    THEN [err |-> FALSE, tag |-> <<>>]
    ELSE [err |-> FALSE, tag |-> Stdout(result, LatestTag(names, prefix))]

\* Tagger.HasUncommittedChanges on the result of git status
HasUncommittedChangesOn(result, hasChanges) ==
    IF result # "ok" THEN [err |-> TRUE, v |-> FALSE] ELSE [err |-> FALSE, v |-> hasChanges]

\* Tagger.IsTagOnCurrentCommit on the results of the two git rev-parse
IsTagOnCurrentCommitOn(tagResult, headResult, tagMap, tag, head) ==
    IF tag = <<>> \/ tagResult # "ok" THEN [err |-> FALSE, v |-> FALSE]
    ELSE IF headResult # "ok" THEN [err |-> TRUE, v |-> FALSE]
    ELSE [err |-> FALSE, v |-> tagMap[tag] = head]

\* Tagger.GetVersionWithDirtyCheck with the fault at one of its invocations:
\* git tag -l, git rev-parse --short, git status, git rev-parse <tag>, git
\* rev-parse HEAD
GetVersionWithDirtyCheckOn(fault, tagMap, prefix, head, hasChanges) ==
    LET latest     == LatestTagOn(Cmd(fault, 1, TRUE), DOMAIN tagMap, prefix)
        changes    == HasUncommittedChangesOn(Cmd(fault, 3, TRUE), hasChanges)
        tagOnHead  == IsTagOnCurrentCommitOn(Cmd(fault, 4, TRUE), Cmd(fault, 5, TRUE),
                                             tagMap, latest.tag, head)
        isDirty    == (~changes.err /\ changes.v) \/ (~tagOnHead.err /\ ~tagOnHead.v)
        versionStr == StripPrefix(latest.tag, prefix)
    IN  IF latest.err \/ Cmd(fault, 2, TRUE) # "ok" THEN [err |-> TRUE, v |-> <<>>]
        ELSE IF latest.tag = <<>> THEN [err |-> FALSE, v |-> S_dev \o ShortCommit(head)]
        ELSE IF isDirty
        THEN [err |-> FALSE, v |-> versionStr \o S_dirty \o ShortCommit(head)]
        ELSE [err |-> FALSE, v |-> versionStr]

\* GetCurrentBranch: git rev-parse --abbrev-ref HEAD under context.Background()
GetCurrentBranch(fault, cur) ==
    IF Cmd(fault, 1, FALSE) # "ok" THEN [err |-> TRUE, v |-> <<>>]
    ELSE [err |-> FALSE, v |-> cur]

\* ListBranches: git branch --format under context.Background()
ListBranches(fault, brs) ==
    IF Cmd(fault, 1, FALSE) # "ok" THEN [err |-> TRUE, v |-> {}]
    ELSE [err |-> FALSE, v |-> DOMAIN brs]

GitTagPool == {S_v \o S_1_0_0, S_v \o S_1_0_1, S_api_v \o S_1_0_0}

InitGit ==
    /\ cfg = Default
    /\ \E T \in SUBSET GitTagPool : \E f \in [T -> 0..MaxCommits] : tags = f
    /\ \E h \in 0..MaxCommits : branches = (S_main :> h)
    /\ currentBranch = S_main
    /\ dirty \in BOOLEAN
    /\ clock = OtherDay
    /\ runs = [r \in RunIds |-> IdleRun]
    /\ log = <<>>
    /\ \E f \in Faults : call = [fn |-> "args", fault |-> f]

\* the operation fn is called and returns out
GitCall(fn, invocations, out) ==
    /\ call.fn = "args"
    /\ call.fault.at <= invocations
    /\ call' = [fn |-> fn, fault |-> call.fault, out |-> out]
    /\ UNCHANGED <<tags, branches, currentBranch, dirty, clock, cfg, runs, log>>

CallLatestTag ==
    GitCall("LatestTag", 1,
            LatestTagOn(Cmd(call.fault, 1, TRUE), TagNames, cfg.Apps[1].Git.TagPrefix))

CallGetVersionWithDirtyCheckOn ==
    GitCall("GetVersionWithDirtyCheck", 5,
            GetVersionWithDirtyCheckOn(call.fault, tags, cfg.Apps[1].Git.TagPrefix,
                                       HeadCommit, dirty))

CallGetCurrentBranch == GitCall("GetCurrentBranch", 1, GetCurrentBranch(call.fault, currentBranch))

CallListBranches == GitCall("ListBranches", 1, ListBranches(call.fault, branches))

NextGit ==
    \/ CallLatestTag
    \/ CallGetVersionWithDirtyCheckOn
    \/ CallGetCurrentBranch
    \/ CallListBranches

SpecGit == InitGit /\ [][NextGit]_vars

----------------------------------------------------------------------------
(* SpecMonorepo: hotfix create and hotfix bump in a repository of two apps *)
(* with different hotfix settings                                          *)

\* the configuration of docs/guide/hotfix.md: api with the branch prefix
\* hotfix/ and the suffix patch, worker with the defaults
MonorepoOwnPrefixes ==
    [DefaultApp |-> "api",
     Apps |-> <<AppConfig("api", SchemeSemVer, S_v, F_date, S_api_v,
                          S_hotfix_slash, S_patch),
                AppConfig("worker", SchemeSemVer, S_v, F_date, S_worker_v,
                          S_release, S_hotfix)>>]

\* the same apps, api with the default branch prefix as well
MonorepoSharedPrefix ==
    [DefaultApp |-> "api",
     Apps |-> <<AppConfig("api", SchemeSemVer, S_v, F_date, S_api_v,
                          S_release, S_patch),
                AppConfig("worker", SchemeSemVer, S_v, F_date, S_worker_v,
                          S_release, S_hotfix)>>]

\* the releases 1.0.0 of the apps
AppTags(c) == {c.Apps[i].Git.TagPrefix \o S_1_0_0 : i \in 1..Len(c.Apps)}

InitMonorepo ==
    /\ cfg \in {MonorepoOwnPrefixes, MonorepoSharedPrefix}
    /\ tags = [t \in AppTags(cfg) |-> 0]
    /\ branches = (S_main :> 0)
    /\ currentBranch = S_main
    /\ dirty = FALSE
    /\ clock = OtherDay
    /\ runs = [r \in RunIds |-> IdleRun]
    /\ log = <<>>
    /\ call = NoCall

NextMonorepo ==
    \/ StartHotfixCreate(1, AppTags(cfg), {FALSE}, BOOLEAN, MaxTags)
    \/ StartHotfixBump(1, {FALSE}, MaxTags)
    \/ HotfixStep(1)
    \/ HbDetect(1)
    \/ HbValidateClean(1)
    \/ HbGetNext(1)
    \/ CtExists(1)
    \/ CtCreate(1)
    \/ (BetweenCommands /\ Checkout)

SpecMonorepo == InitMonorepo /\ [][NextMonorepo]_vars

----------------------------------------------------------------------------
(* SpecVersionCommand: forge version on the repositories of SpecVersion    *)

\* versionAction: the version string of GetVersionWithDirtyCheck and the
\* dirty flag, strings.HasSuffix(versionStr, "-dirty"), that the JSON
\* result and the Status line report
versionAction(tagMap, prefix, head, hasChanges) ==
    LET versionStr == GetVersionWithDirtyCheck(tagMap, prefix, head, hasChanges)
    IN  [Version |-> versionStr,
         Dirty   |-> HasSuffix(versionStr, SubSeq(S_dirty, 1, Len(S_dirty) - 1))]

CallVersionAction ==
    /\ call.fn = "none"
    /\ call' = [fn |-> "versionAction",
                out |-> versionAction(tags, cfg.Apps[1].Git.TagPrefix, HeadCommit, dirty)]
    /\ UNCHANGED <<tags, branches, currentBranch, dirty, clock, cfg, runs, log>>

SpecVersionCommand == InitVersion /\ [][CallVersionAction]_vars

----------------------------------------------------------------------------
(* SpecInteractive: forge bump in a terminal, without --bump: the bump     *)
(* type selected at the first prompt, then the confirmation prompt         *)

\* forge bump in a terminal: the bump type is the one selected at the prompt
StartInteractiveBump(r, bumps, maxTags) ==
    \E b \in bumps :
        Begin(r, [IdleRun EXCEPT !.pc = "clean", !.cmd = "bump", !.bump = b,
                                 !.interactive = TRUE], maxTags)

NextInteractive ==
    \/ StartInteractiveBump(1, {BumpPatch, BumpMinor, BumpMajor}, MaxTags)
    \/ TaCheckClean(1)
    \/ TaHasTags(1)
    \/ TaCalc(1)
    \/ TaConfirm(1)
    \/ CtExists(1)
    \/ CtCreate(1)
    \/ (BetweenCommands /\ Edit)
    \/ (BetweenCommands /\ Commit)

SpecInteractive == (InitRepo(Default) /\ call = NoCall) /\ [][NextInteractive]_vars

----------------------------------------------------------------------------
(* SpecHotfixSuffix: GetNextHotfixTag for a base tag of either scheme and  *)
(* a configured suffix, and what IsHotfixVersion, ParseHotfixVersion and   *)
(* ValidateHotfixBaseTag make of the tag it returns                        *)

S_2025_10 == S_2025 \o <<".", "1", "0">>

\* releases of the schemes semver, calver 2006.WW, 2006.01 and 2006.01.02
SuffixBaseTags ==
    {S_v \o S_1_0_0, S_api_v \o S_1_0_0, S_v \o S_2025_44, S_2025_44,
     S_v \o S_2025_10, S_v \o S_2025_10_02}

\* hotfix.suffix of the configuration: the default, the suffixes of the
\* guide and of the tests, and two with a separator of the tag grammar
Suffixes ==
    {S_hotfix, S_patch, <<"f", "i", "x">>,
     <<"h", "o", "t", "-", "f", "i", "x">>, <<"h", "o", "t", ".", "f", "i", "x">>}

InitHotfixSuffix ==
    /\ cfg = Default
    /\ \E b \in SuffixBaseTags, x \in Suffixes, N \in SUBSET (1..2) :
         /\ tags = [t \in {b} \cup {HotfixPrefix(b, x) \o Itoa(n) : n \in N} |-> 0]
         /\ call = [fn |-> "args", baseTag |-> b, suffix |-> x]
    /\ branches = (S_main :> 0)
    /\ currentBranch = S_main
    /\ dirty = FALSE
    /\ clock = OtherDay
    /\ runs = [r \in RunIds |-> IdleRun]
    /\ log = <<>>

\* GetNextHotfixTag, then the tag it returned given to IsHotfixVersion and
\* to ParseHotfixVersion
CallNextHotfixTagParsed ==
    /\ call.fn = "args"
    /\ LET out == GetNextHotfixTag(TagNames, call.baseTag, call.suffix)
       IN  call' = [fn |-> "GetNextHotfixTag", baseTag |-> call.baseTag,
                    suffix |-> call.suffix, out |-> out,
                    isHotfix |-> IsHotfixVersion(out.tag),
                    parsed |-> ParseHotfixVersion(out.tag)]
    /\ UNCHANGED <<tags, branches, currentBranch, dirty, clock, cfg, runs, log>>

\* the tag GetNextHotfixTag returned is created, as CreateHotfixTag does
\* (git tag -a), and given to ValidateHotfixBaseTag
CallValidateCreated ==
    /\ call.fn = "GetNextHotfixTag"
    /\ tags' = tags @@ (call.out.tag :> 0)
    /\ call' = [call EXCEPT !.fn = "ValidateHotfixBaseTag"] @@
               [err |-> ValidateHotfixBaseTag(TagNames \cup {call.out.tag}, call.out.tag)]
    /\ UNCHANGED <<branches, currentBranch, dirty, clock, cfg, runs, log>>

NextHotfixSuffix == CallNextHotfixTagParsed \/ CallValidateCreated

SpecHotfixSuffix == InitHotfixSuffix /\ [][NextHotfixSuffix]_vars

----------------------------------------------------------------------------
(* SpecHotfixStatus: hotfix bump runs, one after the other or interleaved, *)
(* on the hotfix branch of v1.0.0 and on a branch the user made under the  *)
(* same prefix, with forge hotfix status and forge hotfix list in between  *)

\* hotfixStatusAction: what it reports for the checked-out branch
hotfixStatusAction(c, cur, names) ==
    LET apps    == GetAllAppConfigs(c)
        matches == {i \in 1..Len(apps) :
                       IsHotfixBranch(cur, GetHotfixConfig(apps[i]).BranchPrefix)}
        i       == CHOOSE m \in matches : \A n \in matches : m <= n
        hotfixCfg == GetHotfixConfig(apps[i])
        baseTag == ExtractTagFromBranch(cur, hotfixCfg.BranchPrefix)
        next    == GetNextHotfixTag(names, baseTag, hotfixCfg.Suffix)
    IN  IF matches = {}
        THEN [OnHotfixBranch |-> FALSE, BaseTag |-> <<>>, NextHotfix |-> <<>>,
              HotfixCount |-> 0, LastHotfix |-> <<>>]
        ELSE [OnHotfixBranch |-> TRUE, BaseTag |-> baseTag, NextHotfix |-> next.tag,
              HotfixCount |-> next.seq - 1,
              LastHotfix |-> IF next.seq - 1 > 0
                             THEN HotfixPrefix(baseTag, hotfixCfg.Suffix) \o Itoa(next.seq - 1)
                             ELSE <<>>]

\* hotfixListAction without a base tag argument: the base tag of the
\* checked-out branch, the app of that tag or the default app, and the tags
\* of ListAllTags that start with baseTag-suffix.
hotfixListAction(c, cur, names) ==
    LET apps    == GetAllAppConfigs(c)
        matches == {i \in 1..Len(apps) :
                       IsHotfixBranch(cur, GetHotfixConfig(apps[i]).BranchPrefix)}
        m       == CHOOSE k \in matches : \A n \in matches : k <= n
        baseTag == ExtractTagFromBranch(cur, GetHotfixConfig(apps[m]).BranchPrefix)
        d       == DetectAppFromTag(c, baseTag)
        i       == IF d # 0 THEN d ELSE GetAppConfig(c, "")
        hotfixTags == {t \in TagsWithPrefix(names, apps[i].Git.TagPrefix) :
                          HasPrefix(t, HotfixPrefix(baseTag, GetHotfixConfig(apps[i]).Suffix))}
    IN  IF matches = {} \/ baseTag = <<>>
        THEN [err |-> TRUE, BaseTag |-> <<>>, Hotfixes |-> {}, Count |-> 0]
        ELSE [err |-> FALSE, BaseTag |-> baseTag, Hotfixes |-> hotfixTags,
              Count |-> Cardinality(hotfixTags)]

AllFinished == \A r \in RunIds : runs[r].pc \in Finished

\* forge hotfix status
CallHotfixStatus ==
    /\ AllFinished
    /\ call' = [fn |-> "hotfixStatus", names |-> TagNames, branch |-> currentBranch,
                out |-> hotfixStatusAction(cfg, currentBranch, TagNames)]
    /\ UNCHANGED <<tags, branches, currentBranch, dirty, clock, cfg, runs, log>>

\* forge hotfix list, right after forge hotfix status
CallHotfixList ==
    /\ AllFinished
    /\ call.fn = "hotfixStatus" /\ call.names = TagNames /\ call.branch = currentBranch
    /\ call' = [fn |-> "hotfixList", names |-> TagNames, branch |-> currentBranch,
                status |-> call.out,
                out |-> hotfixListAction(cfg, currentBranch, TagNames)]
    /\ UNCHANGED <<tags, branches, currentBranch, dirty, clock, cfg, runs, log>>

InitHotfixStatus ==
    /\ InitRepo(Default)
    /\ call = NoCall

\* the user makes a branch under the prefix release/ with git branch
BranchByHand ==
    /\ AllFinished
    /\ \E b \in HandBranches \ DOMAIN branches : branches' = branches @@ (b :> HeadCommit)
    /\ UNCHANGED <<tags, currentBranch, dirty, clock, cfg, runs, log, call>>

NextHotfixStatus ==
    \/ \E r \in RunIds : StartHotfixBump(r, {FALSE}, MaxRaceTags)
    \/ \E r \in RunIds : HbDetect(r)
    \/ \E r \in RunIds : HbValidateClean(r)
    \/ \E r \in RunIds : HbGetNext(r)
    \/ \E r \in RunIds : CtExists(r)
    \/ \E r \in RunIds : CtCreate(r)
    \/ BranchByHand
    \/ (AllFinished /\ Checkout)
    \/ CallHotfixStatus
    \/ CallHotfixList

SpecHotfixStatus == InitHotfixStatus /\ [][NextHotfixStatus]_vars

----------------------------------------------------------------------------
(* Properties                                                              *)

\* the release the repository of Spec and SpecRace starts with
InitialTag == cfg.Apps[1].Git.TagPrefix \o S_1_0_0

\* the tags the hotfix bumps created, in order
HotfixLog == SelectSeq(log, LAMBDA e : e.cmd = "hotfixBump")

\* C1: from a base tag without hotfix tags, the k-th successful hotfix bump
\* creates <baseTag>-<suffix>.k with sequence k, and a hotfix bump that runs
\* alone fails only when it is not on the hotfix branch or the tree is dirty
C1_KthHotfixBump ==
    /\ \A k \in 1..Len(HotfixLog) :
          /\ HotfixLog[k].tag = HotfixPrefix(InitialTag, S_hotfix) \o Itoa(k)
          /\ HotfixLog[k].seq = k
    /\ \A r \in RunIds :
          runs[r].cmd = "hotfixBump" /\ runs[r].pc = "failed"
              => runs[r].err \in {"dirty", "not on a hotfix branch"}

\* three hotfix bumps in a row have succeeded
C1_Witness ==
    /\ Len(HotfixLog) = 3
    /\ HotfixLog[3].seq = 3
    /\ (HotfixPrefix(InitialTag, S_hotfix) \o <<"3">>) \in TagNames
    /\ runs[1].cmd = "hotfixBump" /\ runs[1].pc = "done" /\ runs[1].created

\* the ISO week of a day, as the period of the format 2006.WW
WeekPeriod(day) == Itoa(ISOWeek(day).year) \o <<".">> \o Pad2(ISOWeek(day).week)

\* how many tags the bumps created before log[i] in the week of log[i]
EarlierInWeek(i) ==
    Cardinality({j \in 1..(i - 1) : ISOWeek(log[j].day) = ISOWeek(log[i].day)})

\* C2: with the format 2006.WW the n-th bump of an ISO week creates
\* <year>.<week>.n, in every week 01-53, and no bump computes a tag that
\* exists already
C2_WeeklySequence ==
    /\ \A i \in 1..Len(log) :
          log[i].tag = S_v \o WeekPeriod(log[i].day) \o <<".">> \o Itoa(EarlierInWeek(i) + 1)
    /\ \A r \in RunIds : runs[r].err # "tag already exists"

\* C3: the tag that bump creates for an app starts with that app's
\* git.tag_prefix, the prefix the latest tag was found with
C3_TagCarriesTagPrefix ==
    \A i \in 1..Len(log) :
        log[i].cmd = "bump" => HasPrefix(log[i].tag, cfg.Apps[log[i].app].Git.TagPrefix)

\* run r is a hotfix bump that has called GetNextHotfixTag
Computed(r) == runs[r].cmd = "hotfixBump" /\ runs[r].tag # <<>>

InCreateTag(r) == runs[r].pc \in {"exists", "create"}

AlreadyExists == {"tag already exists", "create tag failed: tag already exists"}

\* C5: of two interleaved runs that computed the same tag one is to create
\* it (the tag is not there yet while both are about to), a run fails with
\* "tag already exists" only for a tag that exists and that it did not
\* create, and no tag is created twice
C5_ExactlyOneCreates ==
    /\ \A r, q \in RunIds :
          r # q /\ InCreateTag(r) /\ InCreateTag(q) /\ runs[r].tag = runs[q].tag
              => runs[r].tag \notin TagNames
    /\ \A r \in RunIds :
          runs[r].pc = "failed" /\ runs[r].err \in AlreadyExists
              => runs[r].tag \in TagNames /\ ~runs[r].created
    /\ \A i, j \in 1..Len(log) : log[i].tag = log[j].tag => i = j

\* the sequences of the tags that are exactly baseTag-suffix.N, N decimal
ExactHotfixSeqs(names, baseTag, suffix) ==
    {DigitsVal(TrimPrefix(t, HotfixPrefix(baseTag, suffix))) :
        t \in {u \in names : /\ HasPrefix(u, HotfixPrefix(baseTag, suffix))
                             /\ Len(u) > Len(HotfixPrefix(baseTag, suffix))
                             /\ AllDigits(TrimPrefix(u, HotfixPrefix(baseTag, suffix)))}}

\* the largest element of a finite set of naturals, 0 for the empty set
Largest(S) == CHOOSE m \in S \cup {0} : \A n \in S \cup {0} : n <= m

\* C6: GetNextHotfixTag returns baseTag-suffix.(max+1) and max+1, max the
\* largest N over the tags that are exactly baseTag-suffix.N; a tag whose
\* remainder is not an integer does not count
C6_NextAfterLargestInteger ==
    call.fn = "GetNextHotfixTag"
        => call.out =
             [tag |-> HotfixPrefix(call.baseTag, call.suffix)
                        \o Itoa(Largest(ExactHotfixSeqs(TagNames, call.baseTag, call.suffix)) + 1),
              seq |-> Largest(ExactHotfixSeqs(TagNames, call.baseTag, call.suffix)) + 1]

\* C7: what NextCalVer returns, printed by String and parsed by ParseCalVer,
\* is a version of the same period and the same sequence
C7_RoundTrip ==
    call.fn = "NextCalVer"
        => /\ ~ParseCalVer(String(call.out)).err
           /\ ParseCalVer(String(call.out)).v.CalVerDate = call.out.CalVerDate
           /\ ParseCalVer(String(call.out)).v.CalVerSequence = call.out.CalVerSequence

\* current exists and is of the period of the day
SamePeriod(c) ==
    c.current # NilVersion /\ c.current.CalVerDate = FormatCalVer(c.now, c.format)

C9_FirstOfWeekHasNoSuffix ==
    \A i \in 1..Len(log) :
        log[i].tag = S_v \o WeekPeriod(log[i].day)
                       \o (IF EarlierInWeek(i) = 0 THEN <<>>
                           ELSE <<".">> \o Itoa(EarlierInWeek(i)))

\* the parts after the year are decimal numbers
NumericParts(parts) == \A i \in 2..Len(parts) : AllDigits(parts[i])

\* the first k parts, dotted
Dotted(parts, k) == Join(SubSeq(parts, 1, k), ".")

\* the result is the period with the sequence
Resolved(out, period, sequence) ==
    ~out.err /\ out.v.CalVerDate = period /\ out.v.CalVerSequence = sequence

LatestTagNotAtHead(prefix) ==
    /\ LatestTag(TagNames, prefix) # <<>>
    /\ tags[LatestTag(TagNames, prefix)] # HeadCommit

\* the version ends in -dirty-<shortCommit of HEAD>
EndsInDirty(version) == HasSuffix(version, S_dirty \o ShortCommit(HeadCommit))

AfterFinalHyphen(tag) == SubSeq(tag, LastIndexByte(tag, "-") + 1, Len(tag))

\* the substring before the final "-"
BeforeFinalHyphen(tag) == SubSeq(tag, 1, LastIndexByte(tag, "-") - 1)

\* an optional sign and one or more decimal digits
ParsesAsInteger(s) ==
    \E k \in 0..1 :
        /\ k = 1 => (Len(s) > 0 /\ s[1] \in {"+", "-"})
        /\ Len(s) > k
        /\ \A i \in (k + 1)..Len(s) : IsDigit(s[i])

C15_HotfixNotPrerelease ==
    call.fn = "IsHotfixVersion" /\ call.base \in VersionBases
        => /\ call.tail \in HotfixTails => call.out
           /\ call.tail \in PrereleaseTails \cup PlainTails => ~call.out

\* C16: for a tag ParseHotfixVersion accepts with (suffix, seq),
\* IncrementHotfixSequence returns the tag with the same substring before
\* the final "-", the same suffix and the sequence seq + 1; for a tag that
\* is not a hotfix version it returns an error
C16_IncrementKeepsBaseAndSuffix ==
    call.fn = "IncrementHotfixSequence"
        => /\ ~ParseHotfixVersion(call.tag).err
                => /\ ~call.out.err
                   /\ BeforeFinalHyphen(call.out.tag) = BeforeFinalHyphen(call.tag)
                   /\ AfterFinalHyphen(call.out.tag)
                        = ParseHotfixVersion(call.tag).suffix \o <<".">>
                            \o Itoa(ParseHotfixVersion(call.tag).seq + 1)
                   /\ ParseHotfixVersion(call.out.tag).suffix
                        = ParseHotfixVersion(call.tag).suffix
                   /\ ParseHotfixVersion(call.out.tag).seq
                        = ParseHotfixVersion(call.tag).seq + 1
           /\ ~IsHotfixVersion(call.tag) => call.out.err

\* 2025.10.02-hotfix.9 becomes 2025.10.02-hotfix.10
C16_Witness ==
    /\ call.fn = "IncrementHotfixSequence"
    /\ call.tag = S_2025_10_02 \o <<"-">> \o S_hotfix \o <<".", "9">>
    /\ ~call.out.err
    /\ call.out.tag = S_2025_10_02 \o <<"-">> \o S_hotfix \o <<".", "1", "0">>

----------------------------------------------------------------------------
\* the three numbers of a version
Numbers(v) == <<v.Major, v.Minor, v.Patch>>

C18_FirstSemVer ==
    (call.fn = "CalculateNextVersion" /\ TagsWithPrefix(TagNames, call.prefix) = {}) =>
        /\ ~call.out.err
        /\ call.out.v.Scheme = SchemeSemVer
        /\ Numbers(call.out.v) = IF call.bump = BumpMajor THEN <<1, 0, 0>> ELSE <<0, 1, 0>>
        /\ call.pre = <<>> =>
              String(call.out.v) = IF call.bump = BumpMajor THEN S_1_0_0 ELSE S_0_1_0

\* a patch bump in a repository that holds only another app's tag
C18_Witness ==
    /\ call.fn = "CalculateNextVersion"
    /\ call.bump = BumpPatch
    /\ call.pre = <<>>
    /\ TagNames = {S_api_v \o S_1_0_0}
    /\ String(call.out.v) = S_0_1_0

----------------------------------------------------------------------------
\* C19: for every canonical SemVer string s, ParseSemVer(s) succeeds and
\* String of the result is s; for every canonical CalVer string s,
\* ParseCalVer(s) succeeds and String of the result is s.
C19_ParseStringRoundTrip ==
    call.fn \in {"ParseSemVer", "ParseCalVer"} =>
        /\ ~call.out.err
        /\ String(call.out.v) = call.s

\* the SemVer half of C19
C19_SemVerRoundTrip ==
    call.fn = "ParseSemVer" => (~call.out.err /\ String(call.out.v) = call.s)

\* the CalVer half of C19 outside the two-part strings whose second part
\* is at most 12
C19_CalVerRoundTripElsewhere ==
    (call.fn = "ParseCalVer" /\ ~call.out.err) => String(call.out.v) = call.s

----------------------------------------------------------------------------
HotfixCommands == {"hotfixCreate", "hotfixBump", "hotfixBumpBase"}

\* a base tag that is in the repository and is not a hotfix version
ValidBaseTag(names, tag) == tag \in names /\ ~IsHotfixVersion(tag)

\* C12: no run of hotfix create, hotfix bump or hotfix bump --base creates a
\* tag or a branch whose base tag is missing from the repository or satisfies
\* IsHotfixVersion, and no such run ends without an error (tags are never
\* deleted, so a base tag that is missing now was missing throughout the run).
C12_NoHotfixOfHotfix ==
    /\ \A i \in 1..Len(log) :
          log[i].cmd \in HotfixCommands =>
              (log[i].baseExists /\ ~IsHotfixVersion(log[i].base))
    /\ \A r \in RunIds :
          (runs[r].cmd \in HotfixCommands /\ (runs[r].created \/ runs[r].pc = "done")) =>
              ValidBaseTag(TagNames, runs[r].baseTag)

\* what C12 says of hotfix create and hotfix bump --base alone
C12_CreateAndBaseValidate ==
    /\ \A i \in 1..Len(log) :
          log[i].cmd = "hotfixBumpBase" =>
              (log[i].baseExists /\ ~IsHotfixVersion(log[i].base))
    /\ \A r \in RunIds :
          (runs[r].cmd \in {"hotfixCreate", "hotfixBumpBase"}
             /\ (runs[r].created \/ runs[r].pc = "done")) =>
              ValidBaseTag(TagNames, runs[r].baseTag)

\* C13: a call of CreateHotfixBranch(baseTag, branchPrefix) that is not a dry
\* run returns an error and creates no branch when baseTag does not exist or
\* a branch named branchPrefix + baseTag exists; otherwise it creates exactly
\* the branch branchPrefix + baseTag at the commit of the base tag; it changes
\* no tag.
C13_CreateHotfixBranch ==
    (call.fn = "CreateHotfixBranch" /\ ~call.dryRun) =>
        /\ call.out.tags = call.tagsBefore
        /\ IF \/ call.tag \notin DOMAIN call.tagsBefore
              \/ (call.branchPrefix \o call.tag) \in DOMAIN call.branchesBefore
           THEN call.out.err # "" /\ call.out.branches = call.branchesBefore
           ELSE call.out.branches =
                    call.branchesBefore
                    @@ ((call.branchPrefix \o call.tag) :> call.tagsBefore[call.tag])

\* C13 where no tag is named like the branch
C13_UnlessTagNamedLikeBranch ==
    (call.fn = "CreateHotfixBranch" /\ ~call.dryRun
       /\ (call.branchPrefix \o call.tag) \notin DOMAIN call.tagsBefore) =>
        /\ call.out.tags = call.tagsBefore
        /\ IF \/ call.tag \notin DOMAIN call.tagsBefore
              \/ (call.branchPrefix \o call.tag) \in DOMAIN call.branchesBefore
           THEN call.out.err # "" /\ call.out.branches = call.branchesBefore
           ELSE call.out.branches =
                    call.branchesBefore
                    @@ ((call.branchPrefix \o call.tag) :> call.tagsBefore[call.tag])

\* the original C20: every tag created by bump, bump --initial, hotfix bump
\* or hotfix bump --base is created after the run has verified that the
\* working tree has no uncommitted changes.
C20_TagAfterVerifiedClean ==
    \A i \in 1..Len(log) : log[i].verified

\* C20: every tag created by bump or bump --initial without --force, by
\* hotfix bump or by hotfix bump --base is created after the run has verified
\* that the working tree has no uncommitted changes.
C20_TagAfterVerifiedCleanUnlessForce ==
    \A i \in 1..Len(log) : ~log[i].force => log[i].verified

\* tags created by bump --initial and by hotfix bump --base, each after
\* the run found the working tree clean
C20_Witness ==
    /\ \E i \in 1..Len(log) :
          log[i].cmd = "bump" /\ ~log[i].force /\ log[i].verified
            /\ log[i].tag = S_v \o S_2_0_0
    /\ \E i \in 1..Len(log) : log[i].cmd = "hotfixBumpBase" /\ log[i].verified

----------------------------------------------------------------------------
\* the invocation the fault is at was made: git tag -l and git rev-parse
\* --short always, the others when there is a latest tag
FaultyInvocationMade ==
    /\ call.fault.at >= 1
    /\ call.fault.at >= 3 => LatestTag(TagNames, cfg.Apps[1].Git.TagPrefix) # <<>>

\* C21: whenever a git invocation made by LatestTag or by
\* GetVersionWithDirtyCheck (the tag listing, the status check, the rev-parse
\* calls) fails, the operation returns an error.
C21_GitFailureIsReturned ==
    (call.fn \in {"LatestTag", "GetVersionWithDirtyCheck"} /\ FaultyInvocationMade)
        => call.out.err

\* C27: whenever the caller's cancellation signal fires while a git
\* invocation of the operation is in flight, the operation returns an error.
C27_CancellationIsReturned ==
    (call.fn \in {"LatestTag", "GetVersionWithDirtyCheck", "GetCurrentBranch",
                  "ListBranches"}
       /\ FaultyInvocationMade /\ call.fault.kind \in {"cancel", "cancelLate"})
        => call.out.err

----------------------------------------------------------------------------
\* a command is in progress
InProgress == runs[1].pc \notin Finished

\* C22: no step of a bump, hotfix create, hotfix bump or hotfix bump --base
\* run with --dry-run changes the tags, the branches and the commits they
\* point at, or the checked-out branch, whether the run ends in success or in
\* an error.
C22_DryRunChangesNothing ==
    [][(InProgress /\ runs[1].dryRun) => UNCHANGED <<tags, branches, currentBranch>>]_vars

\* a dry run of hotfix bump --base got through CreateHotfixBranch and
\* CreateHotfixTag and ended in success
C22_Witness ==
    /\ runs[1].cmd = "hotfixBumpBase"
    /\ runs[1].dryRun
    /\ runs[1].pc = "done"
    /\ runs[1].tag = HotfixPrefix(S_v \o S_1_0_0, S_hotfix) \o <<"1">>
    /\ runs[1].tag \notin TagNames
    /\ (S_release \o S_v \o S_1_0_0) \notin DOMAIN branches

----------------------------------------------------------------------------
\* C23: whenever hotfix bump --base returns an error, the run has created
\* neither a branch nor a tag: the branches and tags are those from before
\* the command.
C23_QuickHotfixAllOrNothing ==
    (runs[1].cmd = "hotfixBumpBase" /\ runs[1].pc = "failed") => ~runs[1].created

\* C23 for the errors of the base tag and of the branch name
C23_NothingCreatedOnEarlyError ==
    (runs[1].cmd = "hotfixBumpBase" /\ runs[1].pc = "failed"
       /\ runs[1].err \notin {"dirty", "failed to checkout branch"}) => ~runs[1].created

----------------------------------------------------------------------------
\* the tag a hotfix bump on the hotfix branch of base makes with the settings
\* of the app the base tag belongs to
TagOfOwnApp(e) ==
    HotfixPrefix(e.base, GetHotfixConfig(cfg.Apps[DetectAppFromTag(cfg, e.base)]).Suffix)
        \o Itoa(e.seq)

\* C24: a hotfix bump on the branch hotfix create made from a tag of app X
\* uses X's configuration: its tag prefix, and its hotfix suffix in the tag
\* it creates.
C24_HotfixBumpUsesOwnApp ==
    \A i \in 1..Len(log) :
        (log[i].cmd = "hotfixBump" /\ log[i].base \in AppTags(cfg)) =>
            /\ log[i].app = DetectAppFromTag(cfg, log[i].base)
            /\ log[i].tag = TagOfOwnApp(log[i])

\* C24 where no two apps share a branch prefix
C24_HoldsWithOwnPrefixes ==
    cfg = MonorepoOwnPrefixes => C24_HotfixBumpUsesOwnApp

----------------------------------------------------------------------------
\* C25: the version command reports dirty exactly when the version string it
\* got from GetVersionWithDirtyCheck carries the dirty marker -dirty-<commit>.
C25_DirtyReportedIffMarked ==
    call.fn = "versionAction" =>
        (call.out.Dirty <=> Contains(call.out.Version, S_dirty))

----------------------------------------------------------------------------
\* C26: in interactive bump a tag is created only after the user answered
\* the confirmation prompt with y; a run whose prompt ended with Enter, n, q,
\* esc or ctrl+c has created no tag.
C26_TagOnlyAfterY ==
    /\ \A i \in 1..Len(log) : log[i].key \in {"y", "Y"}
    /\ (runs[1].interactive /\ runs[1].pc \in Finished
          /\ runs[1].key \in {"enter", "n", "N", "q", "esc", "ctrl+c"}) => ~runs[1].created

\* C26 for the keys other than Enter
C26_ExceptEnter ==
    /\ \A i \in 1..Len(log) : log[i].key \in {"y", "Y", "enter"}
    /\ (runs[1].interactive /\ runs[1].pc \in Finished
          /\ runs[1].key \in {"n", "N", "q", "esc", "ctrl+c"}) => ~runs[1].created

----------------------------------------------------------------------------
\* the last tag created is a bump tag of the app that run 1, a bump that has
\* computed its tag and is about to create it, is for
SecondBump ==
    /\ runs[1].cmd = "bump" /\ runs[1].pc \in {"exists", "create"}
    /\ runs[1].initial = <<>>
    /\ Len(log) > 0
    /\ log[Len(log)].cmd = "bump" /\ log[Len(log)].app = runs[1].app

\* SemVer order on the version strings a and b: a < b
SemVerLess(a, b) ==
    LET x == Numbers(ParseSemVer(a).v)
        y == Numbers(ParseSemVer(b).v)
    IN  \/ x[1] < y[1]
        \/ x[1] = y[1] /\ x[2] < y[2]
        \/ x[1] = y[1] /\ x[2] = y[2] /\ x[3] < y[3]

\* the period of a calendar version string of the format, and its sequence
\* number: as many parts as the format has, and the part after them
PeriodOf(version, format) ==
    Join(SubSeq(Split(version, "."), 1, Len(Split(format, "."))), ".")

SequenceOf(version, format) ==
    LET parts == Split(version, ".")
        n     == Len(Split(format, "."))
    IN  IF Len(parts) > n THEN Atoi(parts[n + 1]).n ELSE 0

\* a < b for calendar versions of the format: b is of a later period, or of
\* the same period with a higher sequence number
CalVerLess(a, b, format) ==
    \/ VersionCmp(PeriodOf(a, format), PeriodOf(b, format)) < 0
    \/ /\ PeriodOf(a, format) = PeriodOf(b, format)
       /\ SequenceOf(a, format) < SequenceOf(b, format)

VersionLess(app, a, b) ==
    IF app.Version.Scheme = SchemeSemVer THEN SemVerLess(a, b)
    ELSE CalVerLess(a, b, app.Version.CalVerFormat)

\* what C28 says of the second of two consecutive bump runs
SecondBumpIsGreater ==
    LET app   == cfg.Apps[runs[1].app]
        first == log[Len(log)].tag
    IN  /\ runs[1].tag # first
        /\ LatestTag(TagNames, app.Git.TagPrefix) = first
        /\ VersionLess(app, StripPrefix(first, app.Version.Prefix),
                       StripPrefix(runs[1].tag, app.Version.Prefix))

\* C28: when a bump run follows a successful bump run of the same app with
\* no other change to the tags in between, the tag the first run created is
\* the latest tag the second run sees, and the second run computes another
\* tag, of a strictly greater version.
C28_SecondBumpIsGreater == SecondBump => SecondBumpIsGreater

\* C28 for the apps whose tag prefix is their version prefix
C28_WhenPrefixesAgree ==
    (SecondBump /\ cfg.Apps[runs[1].app].Git.TagPrefix
                     = cfg.Apps[runs[1].app].Version.Prefix) => SecondBumpIsGreater

----------------------------------------------------------------------------
\* what C29 says of a call of GetNextHotfixTag and of the validation of the
\* tag it returned
NextHotfixTagParsesBack ==
    /\ call.fn \in {"GetNextHotfixTag", "ValidateHotfixBaseTag"}
         => /\ call.isHotfix
            /\ ~call.parsed.err
            /\ call.parsed.suffix = call.suffix
            /\ call.parsed.seq = call.out.seq
    /\ call.fn = "ValidateHotfixBaseTag"
         => call.err = "cannot create hotfix from hotfix version"

\* C29: for every base tag and every configured suffix the tag that
\* GetNextHotfixTag returns satisfies IsHotfixVersion, ParseHotfixVersion
\* returns that suffix and that sequence number for it, and
\* ValidateHotfixBaseTag refuses it as a base tag.
C29_NextHotfixTagParsesBack == NextHotfixTagParsesBack

\* a base tag that ParseHotfixVersion can read as a version: SemVer, or
\* CalVer with a week, a sequence or a day
ReadableBase(b) == ~ParseHotfixBase(b).err

\* a suffix without the separators of the tag grammar
PlainSuffix(x) == ~Contains(x, <<"-">>) /\ ~Contains(x, <<".">>)

\* C29 for plain suffixes and base tags that parse
C29_PlainSuffixReadableBase ==
    (ReadableBase(call.baseTag) /\ PlainSuffix(call.suffix)) => NextHotfixTagParsesBack

\* C29 for plain suffixes, whatever the base tag: the parse alone may fail
C29_PlainSuffixIsRefused ==
    PlainSuffix(call.suffix) =>
        /\ call.fn \in {"GetNextHotfixTag", "ValidateHotfixBaseTag"} => call.isHotfix
        /\ call.fn = "ValidateHotfixBaseTag"
             => call.err = "cannot create hotfix from hotfix version"

----------------------------------------------------------------------------
\* the sequence numbers of the hotfix tags of every base tag are 1..n
C30_SequencesWithoutGap ==
    \A b \in TagNames :
        LET seqs == ExactHotfixSeqs(TagNames, b, cfg.Apps[1].Hotfix.Suffix)
        IN  seqs = 1..Cardinality(seqs)

\* the last hotfix that hotfix status reports is an existing tag
C30_LastHotfixExists ==
    (call.fn = "hotfixStatus" /\ call.out.LastHotfix # <<>>)
        => call.out.LastHotfix \in call.names

\* the count of hotfix status is the count of hotfix list
C30_StatusCountIsListCount ==
    call.fn = "hotfixList" => call.status.HotfixCount = call.out.Count

\* C30: with hotfix tags created by hotfix bump runs only, one after the
\* other or interleaved, the sequence numbers of the hotfix tags of a base
\* tag are exactly 1..n, the last hotfix that hotfix status reports is an
\* existing tag, and the count of hotfix status is the number of tags that
\* hotfix list returns for that base tag.
C30_StatusAgreesWithTags ==
    /\ C30_SequencesWithoutGap
    /\ C30_LastHotfixExists
    /\ C30_StatusCountIsListCount

\* C30 while every hotfix bump had a base tag that ValidateHotfixBaseTag
\* accepts: an existing tag that is not a hotfix tag
C30_WhenBasesAreValid ==
    (\A i \in 1..Len(log) : log[i].baseExists /\ ~IsHotfixVersion(log[i].base))
        => C30_StatusAgreesWithTags

====
